---- MODULE Spec2Model ----
(***************************************************************************)
(* The MergeTree part writer of dbms/src/Storages/MergeTree/               *)
(* MergedBlockOutputStream.cpp as a state machine: the stream table, the   *)
(* per-stream compression frames and mark logs, the granularity loops of   *)
(* writeData, the mark arithmetic of writeImpl and the commit.             *)
(*                                                                         *)
(* Strings that are built by concatenation and escaping (column names,     *)
(* stream keys, file names) are sequences of one-character strings, so     *)
(* that escapeForFileName and the "%size<level>" suffix are computed.      *)
(* A data type is the sequence of its constructors, outermost first,       *)
(* ending with the primitive: <<"Nullable", "Array", "UInt8">>.            *)
(***************************************************************************)
EXTENDS Integers, Sequences, FiniteSets, TLC

VARIABLES
    columns_list,               \* MergedBlockOutputStream::columns_list
    index_granularity,          \* storage.index_granularity
    min_compress_block_size,    \* IMergedBlockOutputStream::min_compress_block_size
    sorted,                     \* storage.merging_params.mode != Unsorted
    sort_description,           \* storage.getSortDescription()
    column_streams,             \* stream key -> ColumnStream
    null_streams,               \* column name -> ColumnStream
    disk,                       \* file name -> file, the part directory's content
    dir_exists,                 \* whether the part directory exists
    index_stream,               \* the values serialized to primary.idx, in order:
                                \* [column, row], row a global row number
    index_columns,              \* the in-memory index: per key column, its rows
    marks_count,                \* MergedBlockOutputStream::marks_count
    index_offset,               \* IMergedBlockOutputStream::index_offset
    checksums,                  \* the manifest returned by the commit
    state,                      \* position in the life cycle, see below
    blocks,                     \* history: rows, array length and permutation of every
                                \* block written
    writer,                     \* the class of the object
    initialized,                \* MergedColumnOnlyOutputStream::initialized
    sync,                       \* MergedColumnOnlyOutputStream::sync
    calls,                      \* the calls on the streams that the last commit of
                                \* MergedColumnOnlyOutputStream made, in order
    numbers,                    \* StorageSystemNumbers: [offset, limit]
    counter,                    \* NumbersMultiThreadedState::counter
    max_counter,                \* NumbersMultiThreadedSource::max_counter
    sources,                    \* source -> [block_size, finished]
    chunks,                     \* the chunks that generate returned with rows, in
                                \* order: [source, first, size]
    exception                   \* the error code the last call threw, "" when it returned

vars == <<columns_list, index_granularity, min_compress_block_size, sorted,
          sort_description,
          column_streams, null_streams, disk, dir_exists, index_stream,
          index_columns, marks_count, index_offset, checksums, state, blocks,
          writer, initialized, sync, calls, numbers, counter, max_counter,
          sources, chunks, exception>>

\* The configuration, which no call changes.
config == <<columns_list, index_granularity, min_compress_block_size, sorted,
            sort_description, writer, sync>>

\* The variables of the numbers sources, which no call of a part writer changes.
numbersVars == <<numbers, counter, max_counter, sources, chunks>>

\* No table of numbers is read.
noNumbers ==
    /\ numbers = [offset |-> 0, limit |-> 0]
    /\ counter = 0
    /\ max_counter = 0
    /\ sources = <<>>
    /\ chunks = <<>>

\* state is "open" from the construction to the first commit, then "committed"
\* (the commit wrote checksums.txt) or "empty" (the commit removed the
\* directory); "aborted" after a write or a commit that failed part-way,
\* "dropped" after the destructor, "crashed" after a call that ended the process
\* and "hung" during a call that does not return.

----------------------------------------------------------------------------
\* Bounds of the model.

\* Largest number of rows of one block.
MaxRows == 3
\* Largest number of blocks written to one part.
MaxBlocks == 2
\* Largest index granularity.
MaxGranularity == 3
\* Largest number of elements of one array value.
MaxElems == 1
\* Size in bytes of the working buffer of the compressing write buffer
\* (DBMS_DEFAULT_BUFFER_SIZE in the program, scaled down).
FrameCap == 6

Min(a, b) == IF a < b THEN a ELSE b

----------------------------------------------------------------------------
\* Names and file names.

DATA_FILE_EXTENSION == <<".", "b", "i", "n">>
NULL_MAP_EXTENSION == <<".", "n", "u", "l", "l">>
MARKS_FILE_EXTENSION == <<".", "m", "r", "k">>
NULL_MARKS_FILE_EXTENSION == <<".", "n", "u", "l", "l", "_", "m", "r", "k">>
ARRAY_SIZES_COLUMN_NAME_SUFFIX == <<"%", "s", "i", "z", "e">>

\* escapeForFileName keeps letters, digits and '_' and writes every other
\* byte as '%' followed by its two hexadecimal digits.
escapeChar(c) ==
    IF c = "." THEN <<"%", "2", "E">>
    ELSE IF c = "%" THEN <<"%", "2", "5">>
    ELSE IF c = "/" THEN <<"%", "2", "F">>
    ELSE <<c>>

RECURSIVE escapeForFileName(_)
escapeForFileName(s) ==
    IF s = <<>> THEN <<>>
    ELSE escapeChar(Head(s)) \o escapeForFileName(Tail(s))

\* DataTypeNested::extractNestedTableName: the part of the name before the dot,
\* the whole name when it has no dot.
RECURSIVE extractNestedTableName(_)
extractNestedTableName(name) ==
    IF name = <<>> \/ Head(name) = "." THEN <<>>
    ELSE <<Head(name)>> \o extractNestedTableName(Tail(name))

toString(level) ==
    <<(<<"0", "1", "2", "3", "4", "5", "6", "7", "8", "9">>)[level + 1]>>

\* IDataType::isNullable and typeid_cast<const DataTypeArray *>.
isNullable(type) == Head(type) = "Nullable"
isArray(type) == Head(type) = "Array"
getNestedType(type) == Tail(type)

\* Bytes of one value of a primitive type.
sizeOfPrimitive(type) ==
    IF type = <<"UInt32">> THEN 4 ELSE 1

----------------------------------------------------------------------------
\* ColumnStream: the compressing buffer over the hashing buffer over the data
\* file, and the mark log.
\*   frames       the closed compression frames, [raw, usize]: the offset in the
\*                data file at which the frame begins and its uncompressed size
\*   plain_count  plain_hashing.count(): compressed bytes passed to the data file
\*   offset       compressed.offset(): uncompressed bytes of the frame being filled
\*   count        compressed.count(): uncompressed bytes serialized
\*   marks        the marks written, [raw, frame, rows, count]; rows and count
\*                are the numbers of rows and of bytes serialized into the
\*                stream when the mark was written
\*   rows         the global row numbers serialized into the stream, in order

\* The size of a compressed frame of n bytes: the codec is opaque, a frame is
\* never empty and carries a header.
compressedSize(n) == n + 1

ColumnStream(escaped_column_name_, data_file_extension_, marks_file_extension_) ==
    [escaped_column_name |-> escaped_column_name_,
     data_file_extension |-> data_file_extension_,
     marks_file_extension |-> marks_file_extension_,
     frames |-> <<>>, plain_count |-> 0, offset |-> 0, count |-> 0,
     marks |-> <<>>, rows |-> <<>>]

\* WriteBuffer::next on the compressing buffer: nothing when the buffer is
\* empty, else the buffer is compressed into one frame.
compressed_next(s) ==
    IF s.offset = 0 THEN s
    ELSE [s EXCEPT !.frames = Append(@, [raw |-> s.plain_count, usize |-> s.offset]),
                   !.plain_count = @ + compressedSize(s.offset),
                   !.offset = 0]

\* WriteBuffer::nextIfAtEnd.
compressed_nextIfAtEnd(s) ==
    IF s.offset = FrameCap THEN compressed_next(s) ELSE s

\* WriteBuffer::write of n bytes: fills the buffer, closing a frame each time
\* the buffer is full and bytes remain.
RECURSIVE compressed_write(_, _)
compressed_write(s, n) ==
    IF n = 0 THEN s
    ELSE LET t == compressed_nextIfAtEnd(s)
             k == Min(FrameCap - t.offset, n)
         IN compressed_write([t EXCEPT !.offset = @ + k, !.count = @ + k], n - k)

\* A file of the part directory as its creation leaves it: a data file holds
\* frames, a mark file holds marks, primary.idx holds rows, columns.txt and
\* checksums.txt hold text; opens tells the opens that created or truncated
\* the file: 1 for one, 2 for more than one.
EmptyFile ==
    [frames |-> <<>>, usize |-> 0, marks |-> <<>>, rows |-> <<>>, text |-> <<>>,
     opens |-> 1]

\* open(name, O_TRUNC | O_CREAT | O_WRONLY) in the directory d.
openTruncated(d, f) ==
    [EmptyFile EXCEPT !.opens = IF f \in DOMAIN d THEN 2 ELSE 1]

PRIMARY_IDX == <<"p", "r", "i", "m", "a", "r", "y", ".", "i", "d", "x">>
COLUMNS_TXT == <<"c", "o", "l", "u", "m", "n", "s", ".", "t", "x", "t">>
CHECKSUMS_TXT == <<"c", "h", "e", "c", "k", "s", "u", "m", "s", ".", "t", "x", "t">>

\* The ColumnStream constructor opens the data file and the mark file, both
\* created or truncated.
openFiles(d, stream) ==
    LET data_path == stream.escaped_column_name \o stream.data_file_extension
        marks_path == stream.escaped_column_name \o stream.marks_file_extension
    IN (data_path :> openTruncated(d, data_path))
       @@ (marks_path :> openTruncated(d, marks_path))
       @@ d

----------------------------------------------------------------------------
\* The layout planner. w is [column_streams, null_streams, disk].

\* addNullStream that opens the null map's data file only.
addNullStream_dataOnly(w, name, filename) ==
    LET escaped_column_name ==
            IF Len(filename) > 0 THEN escapeForFileName(filename)
            ELSE escapeForFileName(name)
        stream == ColumnStream(escaped_column_name, NULL_MAP_EXTENSION,
                               NULL_MARKS_FILE_EXTENSION)
    IN [w EXCEPT !.null_streams = (name :> stream) @@ @,
                 !.disk = ((escaped_column_name \o NULL_MAP_EXTENSION) :> EmptyFile) @@ @]

addNullStream(w, name, filename) ==
    LET escaped_column_name ==
            IF Len(filename) > 0 THEN escapeForFileName(filename)
            ELSE escapeForFileName(name)
        stream == ColumnStream(escaped_column_name, NULL_MAP_EXTENSION,
                               NULL_MARKS_FILE_EXTENSION)
    IN [w EXCEPT !.null_streams = (name :> stream) @@ @,
                 !.disk = openFiles(@, stream)]

\* addStream that descends into an array's elements without raising the level.
RECURSIVE addStream_sameLevel(_, _, _, _, _)
addStream_sameLevel(w, name, type, level, filename) ==
    LET escaped_column_name ==
            IF Len(filename) > 0 THEN escapeForFileName(filename)
            ELSE escapeForFileName(name)
    IN IF isNullable(type)
       THEN addStream_sameLevel(addNullStream(w, name, filename), name,
                                getNestedType(type), level, filename)
       ELSE IF isArray(type)
       THEN LET size_name == extractNestedTableName(name)
                                 \o ARRAY_SIZES_COLUMN_NAME_SUFFIX \o toString(level)
                escaped_size_name == escapeForFileName(extractNestedTableName(name))
                                 \o ARRAY_SIZES_COLUMN_NAME_SUFFIX \o toString(level)
                stream == ColumnStream(escaped_size_name, DATA_FILE_EXTENSION,
                                       MARKS_FILE_EXTENSION)
                w1 == [w EXCEPT !.column_streams = (size_name :> stream) @@ @,
                                !.disk = openFiles(@, stream)]
            IN addStream_sameLevel(w1, name, getNestedType(type), level, <<>>)
       ELSE LET stream == ColumnStream(escaped_column_name, DATA_FILE_EXTENSION,
                                       MARKS_FILE_EXTENSION)
            IN [w EXCEPT !.column_streams = (name :> stream) @@ @,
                         !.disk = openFiles(@, stream)]

\* addStream that names the sizes stream after the column, not after its
\* nested table.
RECURSIVE addStream_ownSizes(_, _, _, _, _)
addStream_ownSizes(w, name, type, level, filename) ==
    LET escaped_column_name ==
            IF Len(filename) > 0 THEN escapeForFileName(filename)
            ELSE escapeForFileName(name)
    IN IF isNullable(type)
       THEN addStream_ownSizes(addNullStream(w, name, filename), name,
                               getNestedType(type), level, filename)
       ELSE IF isArray(type)
       THEN LET size_name == name \o ARRAY_SIZES_COLUMN_NAME_SUFFIX \o toString(level)
                escaped_size_name == escapeForFileName(name)
                                 \o ARRAY_SIZES_COLUMN_NAME_SUFFIX \o toString(level)
                stream == ColumnStream(escaped_size_name, DATA_FILE_EXTENSION,
                                       MARKS_FILE_EXTENSION)
                w1 == [w EXCEPT !.column_streams = (size_name :> stream) @@ @,
                                !.disk = openFiles(@, stream)]
            IN addStream_ownSizes(w1, name, getNestedType(type), level + 1, <<>>)
       ELSE LET stream == ColumnStream(escaped_column_name, DATA_FILE_EXTENSION,
                                       MARKS_FILE_EXTENSION)
            IN [w EXCEPT !.column_streams = (name :> stream) @@ @,
                         !.disk = openFiles(@, stream)]

RECURSIVE addStream(_, _, _, _, _)
addStream(w, name, type, level, filename) ==
    LET escaped_column_name ==
            IF Len(filename) > 0 THEN escapeForFileName(filename)
            ELSE escapeForFileName(name)
    IN IF isNullable(type)
       THEN addStream(addNullStream(w, name, filename), name,
                      getNestedType(type), level, filename)
       ELSE IF isArray(type)
       THEN LET size_name == extractNestedTableName(name)
                                 \o ARRAY_SIZES_COLUMN_NAME_SUFFIX \o toString(level)
                escaped_size_name == escapeForFileName(extractNestedTableName(name))
                                 \o ARRAY_SIZES_COLUMN_NAME_SUFFIX \o toString(level)
                stream == ColumnStream(escaped_size_name, DATA_FILE_EXTENSION,
                                       MARKS_FILE_EXTENSION)
                w1 == [w EXCEPT !.column_streams = (size_name :> stream) @@ @,
                                !.disk = openFiles(@, stream)]
            IN addStream(w1, name, getNestedType(type), level + 1, <<>>)
       ELSE LET stream == ColumnStream(escaped_column_name, DATA_FILE_EXTENSION,
                                       MARKS_FILE_EXTENSION)
            IN [w EXCEPT !.column_streams = (name :> stream) @@ @,
                         !.disk = openFiles(@, stream)]

\* The constructor's loop over columns_list.
RECURSIVE addStreams(_, _, _)
addStreams(w, columns, i) ==
    IF i > Len(columns) THEN w
    ELSE addStreams(addStream(w, columns[i].name, columns[i].type, 0, <<>>),
                    columns, i + 1)

----------------------------------------------------------------------------
\* Serialization. A column of a block is [size, first, elems, permutation]: its
\* number of rows, the global row number of the first row of its block, the
\* number of elements of each of its array values and, when the column is the
\* result of permute, for each of its rows the row of the block it is taken
\* from, counted from 0; permutation is <<>> for a column of the block itself.

\* The global number of the row of the block that row i of the column holds.
rowId(column, i) ==
    column.first + (IF column.permutation = <<>> THEN i ELSE column.permutation[i + 1])

\* IColumn::permute(perm, 0): row i of the result is row perm[i] of the column.
permute(column, perm) ==
    [column EXCEPT !.permutation =
        [i \in 1..Len(perm) |->
            IF column.permutation = <<>> THEN perm[i]
            ELSE column.permutation[perm[i] + 1]]]

\* Bytes one row adds to the value stream: an array adds its elements only.
RECURSIVE valueBytes(_, _)
valueBytes(type, elems) ==
    IF isNullable(type) THEN valueBytes(getNestedType(type), elems)
    ELSE IF isArray(type) THEN elems * valueBytes(getNestedType(type), elems)
    ELSE sizeOfPrimitive(type)

\* Bytes of one array size in a sizes stream (a 64-bit integer).
sizeOfOffset == 8

\* Bytes of one mark: two 64-bit integers.
sizeOfMark == 8 + 8

\* The rows that serializeBinary(column, ostr, offset, limit) and
\* serializeOffsets(column, ostr, offset, limit) write: limit rows from offset,
\* clipped at the end of the column; a limit of 0 means all rows from offset.
serializedRows(column, offset, limit) ==
    LET n == IF limit = 0 \/ offset + limit > column.size
             THEN column.size - offset ELSE limit
    IN [i \in 1..n |-> rowId(column, offset + i - 1)]

serialize(stream, ids, bytes_per_row) ==
    [compressed_write(stream, Len(ids) * bytes_per_row) EXCEPT !.rows = @ \o ids]

\* writeMark that writes the offset in the frame first and the offset in the
\* file second.
writeMark_swapped(stream) ==
    LET s == IF stream.offset >= min_compress_block_size
             THEN compressed_next(stream) ELSE stream
    IN [s EXCEPT !.marks = Append(@, [raw |-> s.offset, frame |-> s.plain_count,
                                      rows |-> Len(s.rows), count |-> s.count])]

\* writeMark that closes the frame only above the threshold.
writeMark_above(stream) ==
    LET s == IF stream.offset > min_compress_block_size
             THEN compressed_next(stream) ELSE stream
    IN [s EXCEPT !.marks = Append(@, [raw |-> s.plain_count, frame |-> s.offset,
                                      rows |-> Len(s.rows), count |-> s.count])]

\* The mark of a granule: the frame is closed first when it already holds
\* min_compress_block_size bytes.
writeMark(stream) ==
    LET s == IF stream.offset >= min_compress_block_size
             THEN compressed_next(stream) ELSE stream
    IN [s EXCEPT !.marks = Append(@, [raw |-> s.plain_count, frame |-> s.offset,
                                      rows |-> Len(s.rows), count |-> s.count])]

\* The granularity loop over the null map. The byte map is serialized by
\* serializeBinary(column, ostr) with no offset and no limit, which are then 0:
\* all rows of the map, in every iteration.
RECURSIVE writeNullMap(_, _, _)
writeNullMap(stream, column, prev_mark) ==
    IF ~(prev_mark < column.size) THEN stream
    ELSE LET first_part == prev_mark = 0 /\ index_offset # 0
             limit == IF first_part THEN index_offset ELSE index_granularity
             s1 == IF first_part THEN stream ELSE writeMark(stream)
             s2 == serialize(s1, serializedRows(column, 0, 0), 1)
         IN writeNullMap(compressed_nextIfAtEnd(s2), column, prev_mark + limit)

\* The granularity loop over the array sizes.
RECURSIVE writeSizes(_, _, _)
writeSizes(stream, column, prev_mark) ==
    IF ~(prev_mark < column.size) THEN stream
    ELSE LET first_part == prev_mark = 0 /\ index_offset # 0
             limit == IF first_part THEN index_offset ELSE index_granularity
             s1 == IF first_part THEN stream ELSE writeMark(stream)
             s2 == serialize(s1, serializedRows(column, prev_mark, limit), sizeOfOffset)
         IN writeSizes(compressed_nextIfAtEnd(s2), column, prev_mark + limit)

\* writeValues that ignores the carried index_offset: every iteration writes a
\* mark and a whole granule.
RECURSIVE writeValues_noCarry(_, _, _, _)
writeValues_noCarry(stream, type, column, prev_mark) ==
    IF ~(prev_mark < column.size) THEN stream
    ELSE LET limit == index_granularity
             s1 == writeMark(stream)
             s2 == serialize(s1, serializedRows(column, prev_mark, limit),
                             valueBytes(type, column.elems))
         IN writeValues_noCarry(compressed_nextIfAtEnd(s2), type, column,
                                prev_mark + limit)

\* writeValues without the nextIfAtEnd after a granule.
RECURSIVE writeValues_noNextIfAtEnd(_, _, _, _)
writeValues_noNextIfAtEnd(stream, type, column, prev_mark) ==
    IF ~(prev_mark < column.size) THEN stream
    ELSE LET first_part == prev_mark = 0 /\ index_offset # 0
             limit == IF first_part THEN index_offset ELSE index_granularity
             s1 == IF first_part THEN stream ELSE writeMark(stream)
             s2 == serialize(s1, serializedRows(column, prev_mark, limit),
                             valueBytes(type, column.elems))
         IN writeValues_noNextIfAtEnd(s2, type, column, prev_mark + limit)

\* writeValues whose cursor advances by one row in every iteration.
RECURSIVE writeValues_rowByRow(_, _, _, _)
writeValues_rowByRow(stream, type, column, prev_mark) ==
    IF ~(prev_mark < column.size) THEN stream
    ELSE LET first_part == prev_mark = 0 /\ index_offset # 0
             s1 == IF first_part THEN stream ELSE writeMark(stream)
             s2 == serialize(s1, serializedRows(column, prev_mark, 1),
                             valueBytes(type, column.elems))
         IN writeValues_rowByRow(compressed_nextIfAtEnd(s2), type, column,
                                 prev_mark + 1)

\* The granularity loop over the values.
RECURSIVE writeValues(_, _, _, _)
writeValues(stream, type, column, prev_mark) ==
    IF ~(prev_mark < column.size) THEN stream
    ELSE LET first_part == prev_mark = 0 /\ index_offset # 0
             limit == IF first_part THEN index_offset ELSE index_granularity
             s1 == IF first_part THEN stream ELSE writeMark(stream)
             s2 == serialize(s1, serializedRows(column, prev_mark, limit),
                             valueBytes(type, column.elems))
         IN writeValues(compressed_nextIfAtEnd(s2), type, column, prev_mark + limit)

\* writeData that writes the sizes for every array column, shared or not.
RECURSIVE writeData_everySibling(_, _, _, _, _)
writeData_everySibling(w, name, type, column, level) ==
    IF isNullable(type)
    THEN writeData_everySibling(
             [w EXCEPT !.null_streams[name] = writeNullMap(@, column, 0)],
             name, getNestedType(type), column, level)
    ELSE LET size_name == extractNestedTableName(name)
                              \o ARRAY_SIZES_COLUMN_NAME_SUFFIX \o toString(level)
             w1 == IF isArray(type)
                   THEN [w EXCEPT !.offset_columns = @ \cup {size_name},
                                  !.column_streams[size_name] = writeSizes(@, column, 0)]
                   ELSE w
         IN [w1 EXCEPT !.column_streams[name] = writeValues(@, type, column, 0)]

\* w is [column_streams, null_streams, offset_columns].
RECURSIVE writeData(_, _, _, _, _)
writeData(w, name, type, column, level) ==
    IF isNullable(type)
    THEN writeData([w EXCEPT !.null_streams[name] = writeNullMap(@, column, 0)],
                   name, getNestedType(type), column, level)
    ELSE LET size_name == extractNestedTableName(name)
                              \o ARRAY_SIZES_COLUMN_NAME_SUFFIX \o toString(level)
             w1 == IF isArray(type) /\ size_name \notin w.offset_columns
                   THEN [w EXCEPT !.offset_columns = @ \cup {size_name},
                                  !.column_streams[size_name] = writeSizes(@, column, 0)]
                   ELSE w
         IN [w1 EXCEPT !.column_streams[name] = writeValues(@, type, column, 0)]

\* The loop over the columns of a block that writes every column as the block
\* holds it (MergedColumnOnlyOutputStream::write, and writeImpl without a
\* permutation); every column of a block has the block's number of rows.
RECURSIVE writeColumns(_, _, _, _)
writeColumns(w, columns, i, column) ==
    IF i > Len(columns) THEN w
    ELSE writeColumns(writeData(w, columns[i].name, columns[i].type, column, 0),
                      columns, i + 1, column)

\* The declared columns: block.getByName(name) of a block of the table.
columnNames == {columns_list[i].name : i \in 1..Len(columns_list)}

typeOf(name) ==
    columns_list[CHOOSE i \in 1..Len(columns_list) : columns_list[i].name = name].type

\* An element of the sort description names its column or gives the position
\* of the column in the block, counted from 0; a block holds the declared
\* columns in their order.
SortColumnDescription(column_name_, column_number_) ==
    [column_name |-> column_name_, column_number |-> column_number_]

\* The names that the sort description resolves to, in its order.
primary_columns ==
    [i \in 1..Len(sort_description) |->
        IF sort_description[i].column_name # <<>>
        THEN sort_description[i].column_name
        ELSE columns_list[sort_description[i].column_number + 1].name]

\* primary_columns_name_to_position.emplace(name, i) fails for some i.
duplicateColumns ==
    \E i, j \in 1..Len(primary_columns) :
        i < j /\ primary_columns[i] = primary_columns[j]

\* One tuple of the index: row i of every key column, in the order of the sort
\* description.
indexTuple(row) ==
    [j \in 1..Len(primary_columns) |-> [column |-> primary_columns[j], row |-> row]]

\* writeIndex with the loop condition i <= rows.
RECURSIVE writeIndex_inclusive(_, _, _, _)
writeIndex_inclusive(ix, i, column, granularity) ==
    IF ~(i <= column.size) THEN ix
    ELSE LET ix1 == IF sorted
                    THEN [ix EXCEPT !.index_columns =
                                        [j \in DOMAIN @ |-> Append(@[j], rowId(column, i))],
                                    !.index_stream = @ \o indexTuple(rowId(column, i))]
                    ELSE ix
         IN writeIndex_inclusive([ix1 EXCEPT !.marks_count = @ + 1],
                                 i + granularity, column, granularity)

\* writeIndex that serializes the key columns in the order of columns_list.
RECURSIVE writeIndex_declaredOrder(_, _, _, _)
writeIndex_declaredOrder(ix, i, column, granularity) ==
    IF ~(i < column.size) THEN ix
    ELSE LET keys == SelectSeq([j \in 1..Len(columns_list) |-> columns_list[j].name],
                               LAMBDA n : \E j \in 1..Len(primary_columns) :
                                              primary_columns[j] = n)
             ix1 == IF sorted
                    THEN [ix EXCEPT !.index_columns =
                                        [j \in DOMAIN @ |-> Append(@[j], rowId(column, i))],
                                    !.index_stream = @ \o
                                        [j \in 1..Len(keys) |->
                                            [column |-> keys[j], row |-> rowId(column, i)]]]
                    ELSE ix
         IN writeIndex_declaredOrder([ix1 EXCEPT !.marks_count = @ + 1],
                                     i + granularity, column, granularity)

\* The index loop of writeImpl from row i of the block: for a part that is not
\* Unsorted, row i of every key column is inserted into its index column and
\* serialized to index_stream. ix is [index_columns, index_stream, marks_count].
RECURSIVE writeIndex(_, _, _, _)
writeIndex(ix, i, column, granularity) ==
    IF ~(i < column.size) THEN ix
    ELSE LET ix1 == IF sorted
                    THEN [ix EXCEPT !.index_columns =
                                        [j \in DOMAIN @ |-> Append(@[j], rowId(column, i))],
                                    !.index_stream = @ \o indexTuple(rowId(column, i))]
                    ELSE ix
         IN writeIndex([ix1 EXCEPT !.marks_count = @ + 1],
                       i + granularity, column, granularity)

\* The index_offset of a block that is taken to start a granule.
nextIndexOffset_noCarry(granularity, offset, rows) ==
    (granularity - (rows % granularity)) % granularity

\* The index_offset carried to the next block.
nextIndexOffset(granularity, offset, rows) ==
    LET written_for_last_mark == (granularity - offset + rows) % granularity
    IN (granularity - written_for_last_mark) % granularity

----------------------------------------------------------------------------
\* The commit.

\* The uncompressed bytes of a sequence of frames.
RECURSIVE uncompressedSize(_)
uncompressedSize(frames) ==
    IF frames = <<>> THEN 0
    ELSE Head(frames).usize + uncompressedSize(Tail(frames))

\* finalize without marks.next(): the marks stay in the buffer of the mark file.
finalize_noMarksNext(w, stream) ==
    LET s == compressed_next(stream)
    IN [w EXCEPT !.stream = s,
                 !.disk =
           ((s.escaped_column_name \o s.data_file_extension)
                :> [w.disk[s.escaped_column_name \o s.data_file_extension]
                        EXCEPT !.frames = s.frames,
                               !.usize = uncompressedSize(s.frames),
                               !.rows = s.rows])
           @@ @]

\* ColumnStream::finalize: compressed.next() closes the frame being filled,
\* plain_file->next() writes the buffer of the data file to the file and
\* marks.next() the buffer of the mark file. The files are taken to hold
\* nothing of a stream before its finalize. w is [disk, checksums, stream];
\* w.stream is the stream as finalize leaves it.
finalize(w, stream) ==
    LET s == compressed_next(stream)
    IN [w EXCEPT !.stream = s,
                 !.disk =
           ((s.escaped_column_name \o s.data_file_extension)
                :> [w.disk[s.escaped_column_name \o s.data_file_extension]
                        EXCEPT !.frames = s.frames,
                               !.usize = uncompressedSize(s.frames),
                               !.rows = s.rows])
           @@ ((s.escaped_column_name \o s.marks_file_extension)
                :> [w.disk[s.escaped_column_name \o s.marks_file_extension]
                        EXCEPT !.marks = s.marks])
           @@ @]

\* An entry of the manifest. A hash stands for the content it is taken of.
Checksum(is_compressed_, uncompressed_size_, uncompressed_hash_, file_size_, file_hash_) ==
    [is_compressed |-> is_compressed_, uncompressed_size |-> uncompressed_size_,
     uncompressed_hash |-> uncompressed_hash_, file_size |-> file_size_,
     file_hash |-> file_hash_]

\* addToChecksums that records the data file only.
addToChecksums_noMarks(w, stream, name) ==
    LET n == IF name = <<>> THEN stream.escaped_column_name ELSE name
    IN [w EXCEPT !.checksums =
           ((n \o stream.data_file_extension)
                :> Checksum(TRUE, stream.count, stream.rows,
                            stream.plain_count, stream.frames))
           @@ @]

\* addToChecksums that takes the uncompressed size from plain_hashing and the
\* file size from compressed.
addToChecksums_swapped(w, stream, name) ==
    LET n == IF name = <<>> THEN stream.escaped_column_name ELSE name
    IN [w EXCEPT !.checksums =
           ((n \o stream.data_file_extension)
                :> Checksum(TRUE, stream.plain_count, stream.rows,
                            stream.count, stream.frames))
           @@ ((n \o stream.marks_file_extension)
                :> Checksum(FALSE, 0, <<>>,
                            sizeOfMark * Len(stream.marks), stream.marks))
           @@ @]

\* ColumnStream::addToChecksums: the counts and hashes of compressed, of
\* plain_hashing and of marks, under name or, when name is empty, under the
\* stream's escaped column name.
addToChecksums(w, stream, name) ==
    LET n == IF name = <<>> THEN stream.escaped_column_name ELSE name
    IN [w EXCEPT !.checksums =
           ((n \o stream.data_file_extension)
                :> Checksum(TRUE, stream.count, stream.rows,
                            stream.plain_count, stream.frames))
           @@ ((n \o stream.marks_file_extension)
                :> Checksum(FALSE, 0, <<>>,
                            sizeOfMark * Len(stream.marks), stream.marks))
           @@ @]

\* The loops of writeSuffixAndGetChecksums over a stream table, in key order of
\* the table.
RECURSIVE finalizeStreams(_, _, _)
finalizeStreams(w, streams, keys) ==
    IF keys = {} THEN w
    ELSE LET k == CHOOSE x \in keys : TRUE
             w1 == finalize(w, streams[k])
         IN finalizeStreams(addToChecksums(w1, w1.stream, <<>>), streams, keys \ {k})

\* Bytes of the values serialized to primary.idx.
RECURSIVE indexBytes(_)
indexBytes(entries) ==
    IF entries = <<>> THEN 0
    ELSE valueBytes(typeOf(Head(entries).column), 0) + indexBytes(Tail(entries))

----------------------------------------------------------------------------
\* The parts written: the declared columns and the sort key.

Column(name_, type_) == [name |-> name_, type |-> type_]

\* A table: its columns, its merging mode and its sort description. An Unsorted
\* table has no primary key and every other table has one.
Layout(columns_, mode_, sort_) == [columns |-> columns_, mode |-> mode_, sort |-> sort_]

Layouts ==
    { Layout(<<Column(<<"n">>, <<"UInt32">>)>>, "Ordinary",
             <<SortColumnDescription(<<"n">>, 0)>>),
      Layout(<<Column(<<"k">>, <<"UInt8">>), Column(<<"n">>, <<"UInt32">>)>>, "Ordinary",
             <<SortColumnDescription(<<"n">>, 0), SortColumnDescription(<<>>, 0)>>),
      Layout(<<Column(<<"k">>, <<"UInt8">>), Column(<<"v">>, <<"Nullable", "UInt8">>)>>,
             "Ordinary", <<SortColumnDescription(<<"k">>, 0)>>),
      Layout(<<Column(<<"k">>, <<"UInt8">>), Column(<<"v">>, <<"UInt8">>)>>, "Ordinary",
             <<SortColumnDescription(<<"k">>, 0), SortColumnDescription(<<>>, 0)>>),
      Layout(<<Column(<<"a">>, <<"Nullable", "UInt8">>)>>, "Unsorted", <<>>),
      Layout(<<Column(<<"a">>, <<"Nullable", "Array", "UInt8">>)>>, "Unsorted", <<>>),
      Layout(<<Column(<<"t", ".", "x">>, <<"Array", "UInt8">>),
               Column(<<"t", ".", "y">>, <<"Array", "UInt8">>)>>, "Unsorted", <<>>),
      Layout(<<Column(<<"a">>, <<"Array", "Array", "Nullable", "UInt8">>)>>,
             "Unsorted", <<>>) }

MinCompressBlockSizes == {0, 2, FrameCap + 1}

hasArray(columns) ==
    \E i \in 1..Len(columns) : \E j \in 1..Len(columns[i].type) :
        columns[i].type[j] = "Array"

RECURSIVE totalRows(_)
totalRows(bs) ==
    IF bs = <<>> THEN 0 ELSE Head(bs).rows + totalRows(Tail(bs))

----------------------------------------------------------------------------
\* MergedBlockOutputStream.

\* The value a stream table holds for a key that operator[] inserted: a null
\* pointer.
nullptr == ColumnStream(<<>>, <<>>, <<>>)

Streams(table) == {table[k] : k \in DOMAIN table}

\* The keys that writeData looks up for a column: the column itself, the null
\* map of a Nullable and the sizes of an array.
RECURSIVE nullKeys(_, _)
nullKeys(name, type) ==
    IF isNullable(type) THEN {name} \cup nullKeys(name, getNestedType(type)) ELSE {}

RECURSIVE columnKeys(_, _)
columnKeys(name, type) ==
    IF isNullable(type) THEN columnKeys(name, getNestedType(type))
    ELSE IF isArray(type)
    THEN {name, extractNestedTableName(name) \o ARRAY_SIZES_COLUMN_NAME_SUFFIX \o toString(0)}
    ELSE {name}

\* init() that opens primary.idx whatever the mode.
init_always(d) == (PRIMARY_IDX :> EmptyFile) @@ d

\* init(): the directory is created and, for a part that is not Unsorted,
\* primary.idx is created or truncated.
init(d) == IF sorted THEN (PRIMARY_IDX :> EmptyFile) @@ d ELSE d

\* The constructor: init(), then every declared column gets its streams.
MergedBlockOutputStream(layout, g, m) ==
    /\ writer = "MergedBlockOutputStream"
    /\ columns_list = layout.columns
    /\ sort_description = layout.sort
    /\ sorted = (layout.mode # "Unsorted")
    /\ index_granularity = g
    /\ min_compress_block_size = m
    /\ LET w == addStreams([column_streams |-> <<>>, null_streams |-> <<>>,
                            disk |-> init(<<>>)], layout.columns, 1)
       IN /\ column_streams = w.column_streams
          /\ null_streams = w.null_streams
          /\ disk = w.disk
    /\ dir_exists = TRUE
    /\ index_stream = <<>>
    /\ index_columns = <<>>
    /\ marks_count = 0
    /\ index_offset = 0
    /\ checksums = <<>>
    /\ state = "open"
    /\ blocks = <<>>
    /\ initialized = FALSE
    /\ sync = FALSE
    /\ calls = <<>>
    /\ exception = ""

\* The granularities a table is written with: every one up to the bound, and
\* for a table with arrays the least one and the bound.
Granularities(layout) ==
    IF hasArray(layout.columns) THEN {1, MaxGranularity} ELSE 1..MaxGranularity

Init ==
    /\ noNumbers
    /\ \E layout \in Layouts, m \in MinCompressBlockSizes :
           \E g \in Granularities(layout) : MergedBlockOutputStream(layout, g, m)

\* The call ends the process: nothing more is written.
Crash ==
    /\ state' = "crashed"
    /\ exception' = ""
    /\ UNCHANGED <<numbersVars, config, calls, column_streams, null_streams, disk, dir_exists, index_stream,
                   index_columns, marks_count, index_offset, checksums, blocks,
                   initialized>>

\* The call does not return.
Hang ==
    /\ state' = "hung"
    /\ exception' = ""
    /\ UNCHANGED <<numbersVars, config, calls, column_streams, null_streams, disk, dir_exists, index_stream,
                   index_columns, marks_count, index_offset, checksums, blocks,
                   initialized>>

\* The call throws before it has changed anything.
Throw(code) ==
    /\ exception' = code
    /\ UNCHANGED <<numbersVars, config, calls, column_streams, null_streams, disk, dir_exists, index_stream,
                   index_columns, marks_count, index_offset, checksums, state, blocks,
                   initialized>>

\* A pointer to a permutation is <<>> when it is null and <<perm>> else.

\* primary_columns[i].column: the column of the block, permuted when a
\* permutation is given.
primaryColumn(column, permutation) ==
    IF permutation # <<>> THEN permute(column, permutation[1]) ELSE column

\* The column written that permutes a key column a second time.
columnToWrite_keysTwice(name, column, permutation) ==
    IF permutation # <<>>
    THEN IF \E j \in 1..Len(primary_columns) : primary_columns[j] = name
         THEN permute(primaryColumn(column, permutation), permutation[1])
         ELSE permute(column, permutation[1])
    ELSE column

\* The column that the loop over columns_list hands to writeData: under a
\* permutation, the column of primary_columns for a key column and the column
\* of the block, permuted here, for any other; else the column of the block.
columnToWrite(name, column, permutation) ==
    IF permutation # <<>>
    THEN IF \E j \in 1..Len(primary_columns) : primary_columns[j] = name
         THEN primaryColumn(column, permutation)
         ELSE permute(column, permutation[1])
    ELSE column

\* The loop over columns_list of writeImpl.
RECURSIVE writePermutedColumns(_, _, _, _, _)
writePermutedColumns(w, columns, i, column, permutation) ==
    IF i > Len(columns) THEN w
    ELSE writePermutedColumns(
             writeData(w, columns[i].name, columns[i].type,
                       columnToWrite(columns[i].name, column, permutation), 0),
             columns, i + 1, column, permutation)

\* writeImpl(block, permutation) on a block whose columns have streams, under
\* a granularity that is not 0 and a sort description without duplicates. The
\* index is taken from the columns of primary_columns.
writeImpl(rows, elems, permutation) ==
    /\ LET column == [size |-> rows, first |-> totalRows(blocks), elems |-> elems,
                      permutation |-> <<>>]
           w == writePermutedColumns([column_streams |-> column_streams,
                                      null_streams |-> null_streams,
                                      offset_columns |-> {}], columns_list, 1, column,
                                     permutation)
           ix0 == IF index_columns = <<>>
                  THEN [j \in 1..Len(sort_description) |-> <<>>]
                  ELSE index_columns
           ix == writeIndex([index_columns |-> ix0,
                             index_stream |-> index_stream,
                             marks_count |-> marks_count], index_offset,
                            primaryColumn(column, permutation), index_granularity)
       IN /\ column_streams' = w.column_streams
          /\ null_streams' = w.null_streams
          /\ index_columns' = ix.index_columns
          /\ index_stream' = ix.index_stream
          /\ marks_count' = ix.marks_count
          /\ index_offset' = nextIndexOffset(index_granularity, index_offset, rows)
    /\ blocks' = Append(blocks, [rows |-> rows, elems |-> elems,
                                 permutation |-> permutation])
    /\ UNCHANGED <<numbersVars, config, calls, disk, dir_exists, checksums, state, initialized>>

\* writeImpl(block, nullptr).
writeBlock(rows, elems) == writeImpl(rows, elems, <<>>)

\* writeImpl of a block of no rows after the commit has cleared the stream
\* tables: operator[] inserts a null pointer for every key that writeData looks
\* up, and no loop dereferences it.
writeNoRowsWithoutStreams ==
    /\ column_streams' =
           [k \in UNION {columnKeys(columns_list[i].name, columns_list[i].type) :
                             i \in 1..Len(columns_list)} |-> nullptr] @@ column_streams
    /\ null_streams' =
           [k \in UNION {nullKeys(columns_list[i].name, columns_list[i].type) :
                             i \in 1..Len(columns_list)} |-> nullptr] @@ null_streams
    /\ index_columns' = IF index_columns = <<>>
                        THEN [j \in 1..Len(sort_description) |-> <<>>]
                        ELSE index_columns
    /\ exception' = ""
    /\ UNCHANGED <<numbersVars, config, calls, disk, dir_exists, index_stream, marks_count, index_offset,
                   checksums, state, blocks, initialized>>

\* writeImpl of a block of no rows under granularity 0, where the remainder of
\* the division by 0 does not trap: no loop runs, and the remainder of 0 is 0.
writeNoRowsZeroGranularity ==
    /\ index_columns' = IF index_columns = <<>>
                        THEN [j \in 1..Len(sort_description) |-> <<>>]
                        ELSE index_columns
    /\ index_offset' = 0
    /\ exception' = ""
    /\ UNCHANGED <<numbersVars, config, calls, column_streams, null_streams, disk, dir_exists, index_stream,
                   marks_count, checksums, state, blocks, initialized>>

\* Write that looks for duplicates in the sort description after the block is
\* written.
Write_lateCheck(rows, elems) ==
    /\ writer = "MergedBlockOutputStream"
    /\ state = "open" /\ index_granularity # 0
    /\ writeBlock(rows, elems)
    /\ exception' = IF duplicateColumns THEN "BAD_ARGUMENTS" ELSE ""

\* write(block) -> writeImpl(block, nullptr). The sort description is resolved
\* first. A stream that the tables do not hold is a null pointer, and a
\* granularity of 0 is a divisor of 0 at the end of writeImpl and a loop that
\* does not advance before it: the outcomes of these are the ones a build
\* gives, the process ends, the call does not return, or, where nothing is
\* read through the pointer and the division does not trap, the call returns.
Write(rows, elems) ==
    /\ writer = "MergedBlockOutputStream"
    /\ state \in {"open", "committed", "empty"}
    /\ IF duplicateColumns
       THEN Throw("BAD_ARGUMENTS")
       ELSE IF state # "open"
       THEN IF rows > 0 THEN Crash ELSE Crash \/ writeNoRowsWithoutStreams
       ELSE IF index_granularity = 0
       THEN IF rows > 0 THEN Hang ELSE Crash \/ writeNoRowsZeroGranularity
       ELSE writeBlock(rows, elems) /\ exception' = ""

\* writeWithPermutation(block, permutation) -> writeImpl(block, permutation),
\* with the outcomes of Write.
WriteWithPermutation(rows, elems, perm) ==
    /\ writer = "MergedBlockOutputStream"
    /\ state \in {"open", "committed", "empty"}
    /\ IF duplicateColumns
       THEN Throw("BAD_ARGUMENTS")
       ELSE IF state # "open"
       THEN IF rows > 0 THEN Crash ELSE Crash \/ writeNoRowsWithoutStreams
       ELSE IF index_granularity = 0
       THEN IF rows > 0 THEN Hang ELSE Crash \/ writeNoRowsZeroGranularity
       ELSE writeImpl(rows, elems, <<perm>>) /\ exception' = ""

\* writeImpl that an I/O error ends after the loop over columns_list, in the
\* last flush of a frame: the streams hold the block, the index and the mark
\* arithmetic do not. Nothing in writeImpl catches the exception.
WriteFails(rows, elems) ==
    /\ writer = "MergedBlockOutputStream"
    /\ state = "open" /\ index_granularity # 0 /\ ~duplicateColumns
    /\ LET column == [size |-> rows, first |-> totalRows(blocks), elems |-> elems,
                      permutation |-> <<>>]
           w == writeColumns([column_streams |-> column_streams,
                              null_streams |-> null_streams,
                              offset_columns |-> {}], columns_list, 1, column)
       IN /\ column_streams' = w.column_streams
          /\ null_streams' = w.null_streams
    /\ state' = "aborted"
    /\ exception' = "I/O error"
    /\ UNCHANGED <<numbersVars, config, calls, disk, dir_exists, index_stream, index_columns, marks_count,
                   index_offset, checksums, blocks, initialized>>

\* The destructor, which the caller runs when it gives the part up or is done
\* with it: the stream tables go and their files are closed; the directory and
\* the files in it stay.
Drop ==
    /\ state \in {"open", "committed", "empty", "aborted"}
    /\ state' = "dropped"
    /\ column_streams' = <<>>
    /\ null_streams' = <<>>
    /\ exception' = ""
    /\ UNCHANGED <<numbersVars, config, calls, disk, dir_exists, index_stream, index_columns, marks_count,
                   index_offset, checksums, blocks, initialized>>

\* The end of the commit that removes the directory whatever the part holds.
publish_alwaysRemoves(w) ==
    [disk |-> <<>>, dir_exists |-> FALSE, checksums |-> <<>>]

\* The points at which an I/O error ends the commit: none, the flush of the
\* first stream, the creation of columns.txt, the write of the manifest into
\* checksums.txt after the file was created.
CommitFailures == {"none", "finalize", "columns.txt", "checksums.txt"}

\* The end of the commit that keeps the directory of a part without marks.
publish_keepEmpty(w) ==
    [disk |-> (COLUMNS_TXT :> [EmptyFile EXCEPT !.text = columns_list])
              @@ (CHECKSUMS_TXT :> [EmptyFile EXCEPT !.text = w.checksums])
              @@ w.disk,
     dir_exists |-> TRUE, checksums |-> w.checksums]

\* The end of the commit: a part without marks is removed with its directory
\* and its manifest is cleared; else columns.txt and then checksums.txt are
\* written. w is [disk, checksums]; the result is the directory and the
\* manifest returned.
publish(w) ==
    IF marks_count = 0
    THEN [disk |-> <<>>, dir_exists |-> FALSE, checksums |-> <<>>]
    ELSE [disk |-> (COLUMNS_TXT :> [EmptyFile EXCEPT !.text = columns_list])
                   @@ (CHECKSUMS_TXT :> [EmptyFile EXCEPT !.text = w.checksums])
                   @@ w.disk,
          dir_exists |-> TRUE, checksums |-> w.checksums]

\* writeSuffixAndGetChecksums of a part that was not committed before.
commit(failure) ==
    LET d0 == IF sorted
              THEN (PRIMARY_IDX :> [EmptyFile EXCEPT !.rows = index_stream]) @@ disk
              ELSE disk
        c0 == IF sorted
              THEN PRIMARY_IDX :> Checksum(FALSE, 0, <<>>, indexBytes(index_stream),
                                           index_stream)
              ELSE <<>>
        w1 == finalizeStreams([disk |-> d0, checksums |-> c0, stream |-> nullptr],
                              column_streams, DOMAIN column_streams)
        w2 == finalizeStreams(w1, null_streams, DOMAIN null_streams)
    IN IF failure = "finalize"
       THEN /\ disk' = d0
            /\ state' = "aborted"
            /\ exception' = "I/O error"
            /\ UNCHANGED <<column_streams, null_streams, dir_exists, checksums>>
       ELSE /\ column_streams' = <<>>
            /\ null_streams' = <<>>
            /\ IF marks_count > 0 /\ failure = "columns.txt"
               THEN /\ disk' = w2.disk
                    /\ state' = "aborted"
                    /\ exception' = "I/O error"
                    /\ UNCHANGED <<dir_exists, checksums>>
               ELSE IF marks_count > 0 /\ failure = "checksums.txt"
               THEN /\ disk' = (COLUMNS_TXT :> [EmptyFile EXCEPT !.text = columns_list])
                                @@ (CHECKSUMS_TXT :> EmptyFile) @@ w2.disk
                    /\ state' = "aborted"
                    /\ exception' = "I/O error"
                    /\ UNCHANGED <<dir_exists, checksums>>
               ELSE /\ disk' = publish(w2).disk
                    /\ dir_exists' = publish(w2).dir_exists
                    /\ checksums' = publish(w2).checksums
                    /\ state' = IF marks_count = 0 THEN "empty" ELSE "committed"
                    /\ exception' = ""

\* writeSuffixAndGetChecksums after a commit, on an Unsorted part whose stream
\* tables are empty: the manifest is empty. With marks, columns.txt and
\* checksums.txt are written again; without, the removal of the directory,
\* which does not exist, may throw.
commitAgain ==
    IF marks_count = 0
    THEN /\ exception' \in {"", "File not found"}
         /\ UNCHANGED <<column_streams, null_streams, disk, dir_exists, checksums, state>>
    ELSE /\ disk' = (COLUMNS_TXT :> [EmptyFile EXCEPT !.text = columns_list])
                     @@ (CHECKSUMS_TXT :> [EmptyFile EXCEPT !.text = <<>>]) @@ disk
         /\ checksums' = <<>>
         /\ exception' = ""
         /\ UNCHANGED <<column_streams, null_streams, dir_exists, state>>

\* writeSuffixAndGetChecksums. After a commit index_stream is a null pointer,
\* and so is every stream that a write has inserted since: the process ends.
Commit(failure) ==
    /\ writer = "MergedBlockOutputStream"
    /\ state \in {"open", "committed", "empty"}
    /\ IF state # "open" /\ (sorted \/ DOMAIN column_streams # {})
       THEN failure = "none" /\ Crash
       ELSE /\ IF state = "open" THEN commit(failure)
               ELSE failure = "none" /\ commitAgain
            /\ UNCHANGED <<numbersVars, config, calls, index_stream, index_columns, marks_count,
                           index_offset, blocks, initialized>>

\* The calls of a caller that follows the protocol, write* then one commit,
\* without I/O errors. A block without rows has no array values.
Next ==
    \/ \E rows \in 0..MaxRows :
          \E elems \in IF hasArray(columns_list) /\ rows > 0 THEN 0..MaxElems ELSE {0} :
            state = "open" /\ Len(blocks) < MaxBlocks /\ Write(rows, elems)
    \/ state = "open" /\ Commit("none")

Spec == Init /\ [][Next]_vars

----------------------------------------------------------------------------
\* MergedColumnOnlyOutputStream, which adds columns to a part that exists. It
\* has no columns_list: columns_list stands for the columns of the blocks that
\* are written to it.

\* The files of the part, written before by a MergedBlockOutputStream, that
\* are not files of a column.
existingPart(mode) ==
    LET file == [EmptyFile EXCEPT !.text = <<"e", "x", "i", "s", "t", "i", "n", "g">>]
    IN (COLUMNS_TXT :> file) @@ (CHECKSUMS_TXT :> file)
       @@ (IF mode # "Unsorted" THEN PRIMARY_IDX :> file ELSE <<>>)

\* The constructor opens nothing.
MergedColumnOnlyOutputStream(layout, g, m, sync_) ==
    /\ writer = "MergedColumnOnlyOutputStream"
    /\ columns_list = layout.columns
    /\ sort_description = layout.sort
    /\ sorted = (layout.mode # "Unsorted")
    /\ index_granularity = g
    /\ min_compress_block_size = m
    /\ column_streams = <<>>
    /\ null_streams = <<>>
    /\ disk = existingPart(layout.mode)
    /\ dir_exists = TRUE
    /\ index_stream = <<>>
    /\ index_columns = <<>>
    /\ marks_count = 0
    /\ index_offset = 0
    /\ checksums = <<>>
    /\ state = "open"
    /\ blocks = <<>>
    /\ initialized = FALSE
    /\ sync = sync_
    /\ calls = <<>>
    /\ exception = ""

\* The loop of the first write over the columns of the block: the name of the
\* column is passed as the file name.
RECURSIVE addStreamsOfBlock(_, _, _)
addStreamsOfBlock(w, columns, i) ==
    IF i > Len(columns) THEN w
    ELSE addStreamsOfBlock(addStream(w, columns[i].name, columns[i].type, 0,
                                     columns[i].name),
                           columns, i + 1)

\* The head of write that gives every write new streams.
initializeStreams_always ==
    addStreamsOfBlock([column_streams |-> <<>>, null_streams |-> <<>>, disk |-> disk],
                      columns_list, 1)

\* The head of write: unless initialized, both tables are cleared and every
\* column of the block gets its streams, whose files are created or truncated.
initializeStreams ==
    IF initialized
    THEN [column_streams |-> column_streams, null_streams |-> null_streams, disk |-> disk]
    ELSE addStreamsOfBlock([column_streams |-> <<>>, null_streams |-> <<>>, disk |-> disk],
                           columns_list, 1)

\* MergedColumnOnlyOutputStream::write. The first write after the construction
\* or after a commit clears the tables and gives every column of the block its
\* streams. Under a granularity of 0 the loops of writeData do not advance and
\* the divisor at the end is 0, as in writeImpl.
ColumnOnlyWrite(rows, elems) ==
    /\ writer = "MergedColumnOnlyOutputStream"
    /\ state = "open"
    /\ LET w0 == initializeStreams
           column == [size |-> rows, first |-> totalRows(blocks), elems |-> elems,
                      permutation |-> <<>>]
       IN /\ initialized' = TRUE
          /\ disk' = w0.disk
          /\ exception' = ""
          /\ IF index_granularity = 0
             THEN /\ column_streams' = w0.column_streams
                  /\ null_streams' = w0.null_streams
                  /\ state' = IF rows > 0 THEN "hung" ELSE state
                  /\ UNCHANGED <<index_offset, blocks>>
             ELSE LET w == writeColumns([column_streams |-> w0.column_streams,
                                         null_streams |-> w0.null_streams,
                                         offset_columns |-> {}], columns_list, 1, column)
                  IN /\ column_streams' = w.column_streams
                     /\ null_streams' = w.null_streams
                     /\ index_offset' = nextIndexOffset(index_granularity, index_offset,
                                                        rows)
                     /\ blocks' = Append(blocks, [rows |-> rows, elems |-> elems,
                                               permutation |-> <<>>])
                     /\ UNCHANGED state
    /\ UNCHANGED <<numbersVars, config, calls, dir_exists, index_stream, index_columns, marks_count,
                   checksums>>

\* A call of the commit on the stream with the data file stream_; file is the
\* file that the call passes to fsync, if any.
Call(call_, stream_, file_) == [call |-> call_, stream |-> stream_, file |-> file_]

dataFile(stream) == stream.escaped_column_name \o stream.data_file_extension

marksFile(stream) == stream.escaped_column_name \o stream.marks_file_extension

\* ColumnStream::sync: plain_file->sync(), then marks_file.sync().
syncStream(w, stream) ==
    [w EXCEPT !.calls = @ \o <<Call("sync", dataFile(stream), dataFile(stream)),
                                Call("sync", dataFile(stream), marksFile(stream))>>]

\* The loops that record the entries of a stream before they sync it.
RECURSIVE finalizeStreamsByKey_syncsLast(_, _, _)
finalizeStreamsByKey_syncsLast(w, streams, keys) ==
    IF keys = {} THEN w
    ELSE LET k == CHOOSE x \in keys : TRUE
             w1 == finalize([w EXCEPT !.calls =
                                Append(@, Call("finalize", dataFile(streams[k]), <<>>))],
                            streams[k])
             w2 == addToChecksums(
                       [w1 EXCEPT !.calls =
                            Append(@, Call("addToChecksums", dataFile(streams[k]), <<>>))],
                       w1.stream, escapeForFileName(k))
             w3 == IF sync THEN syncStream(w2, w2.stream) ELSE w2
         IN finalizeStreamsByKey_syncsLast(w3, streams, keys \ {k})

\* The loops of MergedColumnOnlyOutputStream::writeSuffixAndGetChecksums over a
\* stream table: finalize, sync if enabled, and the entries are recorded under
\* the escaped key of the stream. w is [disk, checksums, stream, calls].
RECURSIVE finalizeStreamsByKey(_, _, _)
finalizeStreamsByKey(w, streams, keys) ==
    IF keys = {} THEN w
    ELSE LET k == CHOOSE x \in keys : TRUE
             w1 == finalize([w EXCEPT !.calls =
                                Append(@, Call("finalize", dataFile(streams[k]), <<>>))],
                            streams[k])
             w2 == IF sync THEN syncStream(w1, w1.stream) ELSE w1
         IN finalizeStreamsByKey(
                addToChecksums(
                    [w2 EXCEPT !.calls =
                         Append(@, Call("addToChecksums", dataFile(streams[k]), <<>>))],
                    w2.stream, escapeForFileName(k)),
                streams, keys \ {k})

\* A commit that ends as the commit of MergedBlockOutputStream does.
ColumnOnlyCommit_publishes ==
    /\ writer = "MergedColumnOnlyOutputStream"
    /\ state = "open"
    /\ LET w1 == finalizeStreamsByKey([disk |-> disk, checksums |-> <<>>,
                                       stream |-> nullptr, calls |-> <<>>],
                                      null_streams, DOMAIN null_streams)
           w2 == finalizeStreamsByKey(w1, column_streams, DOMAIN column_streams)
       IN /\ disk' = publish(w2).disk
          /\ dir_exists' = publish(w2).dir_exists
          /\ checksums' = publish(w2).checksums
          /\ calls' = w2.calls
    /\ column_streams' = <<>>
    /\ null_streams' = <<>>
    /\ initialized' = FALSE
    /\ exception' = ""
    /\ UNCHANGED <<numbersVars, config, index_stream, index_columns, marks_count,
                   index_offset, state, blocks>>

\* MergedColumnOnlyOutputStream::writeSuffixAndGetChecksums.
ColumnOnlyCommit ==
    /\ writer = "MergedColumnOnlyOutputStream"
    /\ state = "open"
    /\ LET w1 == finalizeStreamsByKey([disk |-> disk, checksums |-> <<>>,
                                       stream |-> nullptr, calls |-> <<>>],
                                      null_streams, DOMAIN null_streams)
           w2 == finalizeStreamsByKey(w1, column_streams, DOMAIN column_streams)
       IN /\ disk' = w2.disk
          /\ checksums' = w2.checksums
          /\ calls' = w2.calls
    /\ column_streams' = <<>>
    /\ null_streams' = <<>>
    /\ initialized' = FALSE
    /\ exception' = ""
    /\ UNCHANGED <<numbersVars, config, dir_exists, index_stream, index_columns, marks_count,
                   index_offset, state, blocks>>

----------------------------------------------------------------------------
\* writeSuffix, and the calls of any caller.

\* writeSuffix that returns.
WriteSuffix_returns ==
    /\ writer = "MergedBlockOutputStream"
    /\ state \in {"open", "committed", "empty", "aborted"}
    /\ Throw("")

\* MergedBlockOutputStream::writeSuffix.
WriteSuffix ==
    /\ writer = "MergedBlockOutputStream"
    /\ state \in {"open", "committed", "empty", "aborted"}
    /\ Throw("NOT_IMPLEMENTED")

\* MergedColumnOnlyOutputStream::writeSuffix.
ColumnOnlyWriteSuffix ==
    /\ writer = "MergedColumnOnlyOutputStream"
    /\ state = "open"
    /\ Throw("NOT_IMPLEMENTED")

\* The tables that any caller writes to: without arrays.
CallLayouts ==
    { Layout(<<Column(<<"n">>, <<"UInt32">>)>>, "Ordinary",
             <<SortColumnDescription(<<"n">>, 0)>>),
      Layout(<<Column(<<"k">>, <<"UInt8">>), Column(<<"v">>, <<"UInt8">>)>>, "Ordinary",
             <<SortColumnDescription(<<"k">>, 0), SortColumnDescription(<<>>, 0)>>),
      Layout(<<Column(<<"a">>, <<"Nullable", "UInt8">>)>>, "Unsorted", <<>>) }

\* Nothing in the constructors looks at the granularity: 0 is accepted.
InitCalls ==
    /\ noNumbers
    /\ \E layout \in CallLayouts, g \in 0..MaxGranularity, m \in MinCompressBlockSizes :
           \/ MergedBlockOutputStream(layout, g, m)
           \/ \E sync_ \in BOOLEAN :
                  m = 0 /\ MergedColumnOnlyOutputStream(layout, g, m, sync_)
                        /\ ~duplicateColumns

\* Any call in any state, with I/O errors in a write and in the commit, and the
\* destruction of the writer at any point.
NextCalls ==
    \/ \E rows \in 0..MaxRows : Len(blocks) < MaxBlocks /\ Write(rows, 0)
    \/ \E rows \in 1..MaxRows : Len(blocks) < MaxBlocks /\ WriteFails(rows, 0)
    \/ \E failure \in CommitFailures : Commit(failure)
    \/ WriteSuffix
    \/ Drop
    \/ \E rows \in 0..MaxRows : Len(blocks) < MaxBlocks /\ ColumnOnlyWrite(rows, 0)
    \/ ColumnOnlyCommit
    \/ ColumnOnlyWriteSuffix

SpecCalls == InitCalls /\ [][NextCalls]_vars

----------------------------------------------------------------------------
\* system.numbers_mt: NumbersMultiThreadedSource.

\* The number of values of UInt64, scaled down: the arithmetic of the counter
\* and of generate is taken modulo this.
UInt64Modulus == 16
\* Largest max_block_size.
MaxBlockSize == 2
\* Largest limit of the table.
MaxLimit == 3
\* Largest num_streams.
MaxStreams == 2
\* Largest number of chunks with rows that the sources return.
MaxChunks == 4

\* The variables of the part writers.
writerVars == <<columns_list, index_granularity, min_compress_block_size, sorted,
                sort_description, column_streams, null_streams, disk, dir_exists,
                index_stream, index_columns, marks_count, index_offset, checksums,
                state, blocks, writer, initialized, sync, calls, exception>>

\* No part is written.
noWriter ==
    /\ columns_list = <<>>
    /\ index_granularity = 0
    /\ min_compress_block_size = 0
    /\ sorted = FALSE
    /\ sort_description = <<>>
    /\ column_streams = <<>>
    /\ null_streams = <<>>
    /\ disk = <<>>
    /\ dir_exists = FALSE
    /\ index_stream = <<>>
    /\ index_columns = <<>>
    /\ marks_count = 0
    /\ index_offset = 0
    /\ checksums = <<>>
    /\ state = "reading"
    /\ blocks = <<>>
    /\ writer = "NumbersMultiThreadedSource"
    /\ initialized = FALSE
    /\ sync = FALSE
    /\ calls = <<>>
    /\ exception = ""

\* NumbersMultiThreadedSource(state, block_size, max_counter).
NumbersMultiThreadedSource(block_size_) ==
    [block_size |-> block_size_, finished |-> FALSE]

\* StorageSystemNumbers::readWithProcessors of a multithreaded table without
\* even distribution, in the branch that shares one counter: the limit is not
\* below max_block_size, num_streams > 1 and the limit is not 0.
readWithProcessors(offset_, limit_, max_block_size, num_streams) ==
    /\ ~(limit_ < max_block_size)
    /\ num_streams > 1 /\ limit_ # 0
    /\ numbers = [offset |-> offset_, limit |-> limit_]
    /\ counter = offset_
    /\ max_counter = (offset_ + limit_) % UInt64Modulus
    /\ sources = [i \in 1..num_streams |-> NumbersMultiThreadedSource(max_block_size)]
    /\ chunks = <<>>

\* NumbersMultiThreadedSource::generate of source i: fetch_add on the shared
\* counter is the one access to shared state; a chunk without rows ends the
\* source. The result is [counter, source, chunks].
generate(i) ==
    LET block_size == sources[i].block_size
        curr == counter
    IN IF block_size = 0
       THEN [counter |-> counter, source |-> [sources[i] EXCEPT !.finished = TRUE],
             chunks |-> chunks]
       ELSE IF curr >= max_counter
       THEN [counter |-> (counter + block_size) % UInt64Modulus,
             source |-> [sources[i] EXCEPT !.finished = TRUE], chunks |-> chunks]
       ELSE LET size == IF (curr + block_size) % UInt64Modulus > max_counter
                        THEN max_counter - curr ELSE block_size
            IN [counter |-> (counter + block_size) % UInt64Modulus,
                source |-> [sources[i] EXCEPT !.block_size = size],
                chunks |-> Append(chunks, [source |-> i, first |-> curr,
                                           size |-> size])]

\* A thread of the pipeline calls generate of a source that is not finished.
Generate(i) ==
    /\ writer = "NumbersMultiThreadedSource"
    /\ ~sources[i].finished
    /\ Len(generate(i).chunks) <= MaxChunks
    /\ counter' = generate(i).counter
    /\ sources' = [sources EXCEPT ![i] = generate(i).source]
    /\ chunks' = generate(i).chunks
    /\ UNCHANGED <<writerVars, numbers, max_counter>>

\* The tables read: every offset and limit whose end offset + limit is a
\* UInt64.
InitNumbers ==
    /\ noWriter
    /\ \E limit_ \in 1..MaxLimit, max_block_size \in 1..MaxBlockSize,
          num_streams \in 2..MaxStreams :
           \E offset_ \in 0..(UInt64Modulus - 1 - limit_) :
               readWithProcessors(offset_, limit_, max_block_size, num_streams)

NextNumbers == \E i \in DOMAIN sources : Generate(i)

SpecNumbers == InitNumbers /\ [][NextNumbers]_vars

----------------------------------------------------------------------------
\* MergedColumnOnlyOutputStream over the columns of a block with arrays.

\* The columns a caller adds to a part: an array, two arrays of one nested
\* table, and a number whose name has a dot.
ColumnOnlyLayouts ==
    { Layout(<<Column(<<"a">>, <<"Array", "UInt8">>)>>, "Unsorted", <<>>),
      Layout(<<Column(<<"t", ".", "x">>, <<"Array", "UInt8">>),
               Column(<<"t", ".", "y">>, <<"Array", "UInt8">>)>>, "Unsorted", <<>>),
      Layout(<<Column(<<"n", ".", "m">>, <<"UInt32">>)>>, "Unsorted", <<>>) }

InitColumnOnly ==
    /\ noNumbers
    /\ \E layout \in ColumnOnlyLayouts, g \in 1..MaxGranularity, sync_ \in BOOLEAN :
           MergedColumnOnlyOutputStream(layout, g, 0, sync_)

NextColumnOnly ==
    \/ \E rows \in 0..MaxRows :
          \E elems \in IF hasArray(columns_list) /\ rows > 0 THEN 0..MaxElems ELSE {0} :
            Len(blocks) < MaxBlocks /\ ColumnOnlyWrite(rows, elems)
    \/ ColumnOnlyCommit

SpecColumnOnly == InitColumnOnly /\ [][NextColumnOnly]_vars

----------------------------------------------------------------------------
\* Writes with a permutation, of a caller that follows the protocol.

\* Permutations of the rows 0..n-1 of a block: the identity, the reversal and
\* the rotation by one row.
blockPermutations(n) ==
    {[i \in 1..n |-> i - 1], [i \in 1..n |-> n - i], [i \in 1..n |-> i % n]}

\* Sorted tables: both columns in the key, and a key column with a Nullable
\* column that is not in the key.
PermutationLayouts ==
    { Layout(<<Column(<<"k">>, <<"UInt8">>), Column(<<"n">>, <<"UInt32">>)>>, "Ordinary",
             <<SortColumnDescription(<<"n">>, 0), SortColumnDescription(<<>>, 0)>>),
      Layout(<<Column(<<"k">>, <<"UInt8">>), Column(<<"v">>, <<"Nullable", "UInt8">>)>>,
             "Ordinary", <<SortColumnDescription(<<"k">>, 0)>>) }

InitPermutation ==
    /\ noNumbers
    /\ \E layout \in PermutationLayouts, g \in 1..MaxGranularity :
           MergedBlockOutputStream(layout, g, 0)

NextPermutation ==
    \/ \E rows \in 0..MaxRows : \E perm \in blockPermutations(rows) :
          state = "open" /\ Len(blocks) < MaxBlocks /\ WriteWithPermutation(rows, 0, perm)
    \/ \E rows \in 0..MaxRows :
          state = "open" /\ Len(blocks) < MaxBlocks /\ Write(rows, 0)
    \/ state = "open" /\ Commit("none")

SpecPermutation == InitPermutation /\ [][NextPermutation]_vars

----------------------------------------------------------------------------
\* Properties.

Front(q) == SubSeq(q, 1, Len(q) - 1)
Last(q) == q[Len(q)]

\* Every ColumnStream of both tables.
allStreams ==
    {column_streams[k] : k \in DOMAIN column_streams}
    \cup {null_streams[k] : k \in DOMAIN null_streams}

\* The carried offset after the blocks bs, by the recurrence of I5.
RECURSIVE offsetAfter(_)
offsetAfter(bs) ==
    IF bs = <<>> THEN 0
    ELSE LET g == index_granularity
         IN (g - ((g - offsetAfter(Front(bs)) + Last(bs).rows) % g)) % g

\* The indices offset, offset + g, ... below rows.
markIndices(offset, rows) ==
    {i \in 0..(rows - 1) : i >= offset /\ (i - offset) % index_granularity = 0}

RECURSIVE marksAfter(_)
marksAfter(bs) ==
    IF bs = <<>> THEN 0
    ELSE marksAfter(Front(bs))
         + Cardinality(markIndices(offsetAfter(Front(bs)), Last(bs).rows))

\* The marks that the index loop counts for a block of rows rows.
marksOfBlock(granularity, offset, rows) ==
    writeIndex([index_columns |-> <<>>, index_stream |-> <<>>, marks_count |-> 0],
               offset, [size |-> rows, first |-> 0, elems |-> 0, permutation |-> <<>>], granularity).marks_count

\* C1: index_offset starts at 0 and follows the recurrence
\* (g - ((g - index_offset + rows) mod g)) mod g over the blocks written, and
\* marks_count is the sum over the blocks of the number of indices
\* index_offset, index_offset + g, ... below the block's number of rows.
C1_MarkArithmetic ==
    /\ index_offset = offsetAfter(blocks)
    /\ marks_count = marksAfter(blocks)
    /\ marksOfBlock(8192, 0, 16384) = 2 /\ nextIndexOffset(8192, 0, 16384) = 0
    /\ marksOfBlock(8192, 0, 5000) = 1 /\ nextIndexOffset(8192, 0, 5000) = 3192
    /\ marksOfBlock(8192, 3192, 5000) = 1 /\ nextIndexOffset(8192, 3192, 5000) = 6384

\* Two blocks of 2 rows under granularity 3 (the shape of two blocks of 5000
\* rows under 8192): one mark and carry 1, then two marks and carry 2.
C1_Witness ==
    /\ index_granularity = 3
    /\ Len(blocks) = 2 /\ blocks[1].rows = 2 /\ blocks[2].rows = 2
    /\ offsetAfter(Front(blocks)) = 1 /\ marksAfter(Front(blocks)) = 1
    /\ index_offset = 2 /\ marks_count = 2

\* C2: in every stream that writeData writes, k * granularity rows are
\* serialized before the stream's k-th mark (k = 0, 1, ...), and the stream has
\* as many marks as writeImpl has counted.
C2_MarksEveryGranule ==
    \A s \in allStreams :
        /\ \A k \in 1..Len(s.marks) : s.marks[k].rows = (k - 1) * index_granularity
        /\ s.rows # <<>> => Len(s.marks) = marks_count

\* File names.
endsWith(f, ext) ==
    /\ Len(f) >= Len(ext)
    /\ SubSeq(f, Len(f) - Len(ext) + 1, Len(f)) = ext

contains(f, part) ==
    \E i \in 1..(Len(f) - Len(part) + 1) : SubSeq(f, i, i + Len(part) - 1) = part

stem(f, ext) == SubSeq(f, 1, Len(f) - Len(ext))

isMarkFile(f) ==
    endsWith(f, MARKS_FILE_EXTENSION) \/ endsWith(f, NULL_MARKS_FILE_EXTENSION)

\* The data file a mark file belongs to.
dataFileOf(f) ==
    IF endsWith(f, NULL_MARKS_FILE_EXTENSION)
    THEN stem(f, NULL_MARKS_FILE_EXTENSION) \o NULL_MAP_EXTENSION
    ELSE stem(f, MARKS_FILE_EXTENSION) \o DATA_FILE_EXTENSION

markFiles == {f \in DOMAIN disk : isMarkFile(f)}

\* The rows 0 .. n-1 in order.
rowNumbers(n) == [i \in 1..n |-> i - 1]

\* C3: after a commit the mark file of every stream holds 16 * marks_count
\* bytes.
C3_MarkFileSizes ==
    state = "committed" =>
        \A f \in markFiles : sizeOfMark * Len(disk[f].marks) = 16 * marks_count

\* Bytes of marks that I2 gives for total_rows rows written from the carried
\* offset.
markBytesI2(total_rows, offset) ==
    IF total_rows >= offset
    THEN 16 * ((total_rows - offset) \div index_granularity + 1)
    ELSE 0

\* The same with the number of granules begun: the quotient rounded up.
markBytesBegun(total_rows, offset) ==
    IF total_rows > offset
    THEN 16 * ((total_rows - offset + index_granularity - 1) \div index_granularity)
    ELSE 0

RECURSIVE sumMarkBytesI2(_)
sumMarkBytesI2(bs) ==
    IF bs = <<>> THEN 0
    ELSE sumMarkBytesI2(Front(bs))
         + markBytesI2(Last(bs).rows, offsetAfter(Front(bs)))

RECURSIVE sumMarkBytesBegun(_)
sumMarkBytesBegun(bs) ==
    IF bs = <<>> THEN 0
    ELSE sumMarkBytesBegun(Front(bs))
         + markBytesBegun(Last(bs).rows, offsetAfter(Front(bs)))

\* C4 as stated: each write of total_rows rows from the carried offset
\* index_offset adds 16 * floor((total_rows - index_offset) / g + 1) bytes of
\* marks to the value stream when total_rows >= index_offset, else none.
C4_MarkBytesFloor ==
    state = "open" =>
        \A name \in columnNames :
            sizeOfMark * Len(column_streams[name].marks) = sumMarkBytesI2(blocks)

\* C4 amended: each write adds 16 * ceil((total_rows - index_offset) / g) bytes
\* of marks to the value stream when total_rows > index_offset, else none.
C4_MarkBytesCeil ==
    state = "open" =>
        \A name \in columnNames :
            sizeOfMark * Len(column_streams[name].marks) = sumMarkBytesBegun(blocks)

\* A second block of exactly index_offset rows (no mark), after a first block
\* that is not a multiple of the granularity.
C4_Witness ==
    /\ state = "open"
    /\ Len(blocks) = 2
    /\ offsetAfter(Front(blocks)) # 0
    /\ Last(blocks).rows = offsetAfter(Front(blocks))
    /\ \A name \in columnNames :
           Len(column_streams[name].marks) = marksAfter(Front(blocks))

\* A mark dereferences into a frame of the data file.
markInFrame(m, file) ==
    \E i \in 1..Len(file.frames) :
        file.frames[i].raw = m.raw /\ file.frames[i].usize >= m.frame + 1

\* End of the data file: the byte after its last frame.
endOfData(file) ==
    IF file.frames = <<>> THEN 0
    ELSE Last(file.frames).raw + compressedSize(Last(file.frames).usize)

\* C5 as stated: for every mark of every mark file, a frame begins at raw_offset
\* and decompresses to at least frame_offset + 1 bytes; no mark has the
\* frame_offset of a full frame and none points at the end of the data.
C5_EveryMarkInFrame ==
    state = "committed" =>
        \A f \in markFiles : \A k \in 1..Len(disk[f].marks) :
            LET m == disk[f].marks[k]
            IN /\ markInFrame(m, disk[dataFileOf(f)])
               /\ m.frame < FrameCap
               /\ m.raw < endOfData(disk[dataFileOf(f)])

\* C5 amended: the same for every mark after which at least one byte is
\* serialized into the stream; a mark after which nothing is serialized points
\* at the end of the last frame or, with frame_offset 0, at the end of the
\* data; no mark has the frame_offset of a full frame.
C5_MarkInFrameIfDataFollows ==
    state = "committed" =>
        \A f \in markFiles : \A k \in 1..Len(disk[f].marks) :
            LET m == disk[f].marks[k]
                file == disk[dataFileOf(f)]
            IN /\ m.frame < FrameCap
               /\ m.count < file.usize =>
                      markInFrame(m, file) /\ m.raw < endOfData(file)
               /\ m.count = file.usize =>
                      \/ m.frame = 0 /\ m.raw = endOfData(file)
                      \/ /\ m.frame > 0 /\ file.frames # <<>>
                         /\ Last(file.frames).raw = m.raw
                         /\ Last(file.frames).usize = m.frame

\* A committed part with a mark that lies inside a frame, behind other data of
\* the frame, and a mark at the start of a later frame.
C5_Witness ==
    /\ state = "committed"
    /\ \E f \in markFiles : \E k, l \in 1..Len(disk[f].marks) :
           /\ disk[f].marks[k].frame > 0
           /\ markInFrame(disk[f].marks[k], disk[dataFileOf(f)])
           /\ disk[f].marks[l].raw > 0 /\ disk[f].marks[l].frame = 0
           /\ markInFrame(disk[f].marks[l], disk[dataFileOf(f)])

\* C6: every recorded mark has frame_offset 0 or below
\* min_compress_block_size: a frame that holds min_compress_block_size bytes is
\* closed before the mark is recorded, and the mark then names the next frame.
C6_MarkBelowThreshold ==
    \A s \in allStreams : \A k \in 1..Len(s.marks) :
        LET m == s.marks[k]
        IN /\ m.frame = 0 \/ m.frame < min_compress_block_size
           /\ m.frame <= m.count
           /\ (m.count > 0 /\ m.frame = 0) =>
                  \E i \in 1..Len(s.frames) :
                      s.frames[i].raw + compressedSize(s.frames[i].usize) = m.raw

\* A stream with a mark recorded right after the threshold closed a frame and,
\* under a larger threshold, a mark inside a frame.
C6_Witness ==
    \E s \in allStreams : \E k \in 1..Len(s.marks) :
        /\ k > 1
        /\ \/ /\ min_compress_block_size = 2
              /\ s.marks[k].frame = 0 /\ s.marks[k].raw > 0
              /\ s.marks[k].count - s.marks[k - 1].count = 2
           \/ /\ min_compress_block_size > 2
              /\ s.marks[k].frame > 2

\* C7: the null-map stream of a Nullable column holds one byte per row
\* written, each row once and in row order.
C7_NullMapOncePerRow ==
    state = "open" =>
        \A name \in columnNames :
            isNullable(typeOf(name)) =>
                /\ null_streams[name].rows = rowNumbers(totalRows(blocks))
                /\ null_streams[name].count = totalRows(blocks)

\* The number of Array constructors of a type.
RECURSIVE arrayDepth(_)
arrayDepth(type) ==
    IF type = <<>> THEN 0
    ELSE (IF Head(type) = "Array" THEN 1 ELSE 0) + arrayDepth(Tail(type))

hasNullable(type) == \E j \in 1..Len(type) : type[j] = "Nullable"

sizesKey(name, level) ==
    extractNestedTableName(name) \o ARRAY_SIZES_COLUMN_NAME_SUFFIX \o toString(level)

sizesFile(name, level) ==
    escapeForFileName(extractNestedTableName(name))
        \o ARRAY_SIZES_COLUMN_NAME_SUFFIX \o toString(level)

\* The sizes keys of the declared columns, at every level of their arrays.
sizesKeys ==
    UNION {{sizesKey(n, l) : l \in 0..(arrayDepth(typeOf(n)) - 1)} : n \in columnNames}

filesOf(stream) ==
    {stream.escaped_column_name \o stream.data_file_extension,
     stream.escaped_column_name \o stream.marks_file_extension}

\* C8: addStream registers, for every declared column, one value stream keyed
\* name with files escape(name).bin/.mrk, for every Nullable in its type one
\* null-map stream keyed name with files escape(name).null/.null_mrk, for every
\* Array at level L one sizes stream keyed nested_root(name) + "%size" + L with
\* files escape(nested_root(name)) + "%size" + L + .bin/.mrk, and no others.
C8_StreamsRegistered ==
    state = "open" =>
        /\ DOMAIN column_streams = columnNames \cup sizesKeys
        /\ DOMAIN null_streams = {n \in columnNames : hasNullable(typeOf(n))}
        /\ \A n \in columnNames :
               /\ filesOf(column_streams[n]) =
                      {escapeForFileName(n) \o DATA_FILE_EXTENSION,
                       escapeForFileName(n) \o MARKS_FILE_EXTENSION}
               /\ \A l \in 0..(arrayDepth(typeOf(n)) - 1) :
                      filesOf(column_streams[sizesKey(n, l)]) =
                          {sizesFile(n, l) \o DATA_FILE_EXTENSION,
                           sizesFile(n, l) \o MARKS_FILE_EXTENSION}
               /\ hasNullable(typeOf(n)) =>
                      filesOf(null_streams[n]) =
                          {escapeForFileName(n) \o NULL_MAP_EXTENSION,
                           escapeForFileName(n) \o NULL_MARKS_FILE_EXTENSION}
        /\ DOMAIN disk \ {PRIMARY_IDX} =
               UNION {filesOf(s) : s \in allStreams}

\* The streams and files of a: Nullable(Array(UInt8)), by their literal names.
C8_Witness ==
    /\ state = "open"
    /\ columns_list[1].name = <<"a">>
    /\ columns_list[1].type = <<"Nullable", "Array", "UInt8">>
    /\ DOMAIN column_streams = {<<"a">>, <<"a", "%", "s", "i", "z", "e", "0">>}
    /\ DOMAIN null_streams = {<<"a">>}
    /\ DOMAIN disk = {<<"a", ".", "b", "i", "n">>, <<"a", ".", "m", "r", "k">>,
                      <<"a", "%", "s", "i", "z", "e", "0", ".", "b", "i", "n">>,
                      <<"a", "%", "s", "i", "z", "e", "0", ".", "m", "r", "k">>,
                      <<"a", ".", "n", "u", "l", "l">>,
                      <<"a", ".", "n", "u", "l", "l", "_", "m", "r", "k">>}

\* C9: the stream table and the part directory hold exactly one sizes stream,
\* one sizes data file and one sizes mark file per sizes key, however many
\* sibling columns share the key.
C9_OneSizesPairPerKey ==
    /\ state = "open" =>
           Cardinality({k \in DOMAIN column_streams :
                            contains(k, ARRAY_SIZES_COLUMN_NAME_SUFFIX)})
               = Cardinality(sizesKeys)
    /\ dir_exists =>
           /\ Cardinality({f \in DOMAIN disk :
                               /\ contains(f, ARRAY_SIZES_COLUMN_NAME_SUFFIX)
                               /\ endsWith(f, DATA_FILE_EXTENSION)})
                  = Cardinality(sizesKeys)
           /\ Cardinality({f \in DOMAIN disk :
                               /\ contains(f, ARRAY_SIZES_COLUMN_NAME_SUFFIX)
                               /\ endsWith(f, MARKS_FILE_EXTENSION)})
                  = Cardinality(sizesKeys)

\* The siblings t.x and t.y written and committed: one t%size0 pair.
C9_Witness ==
    /\ state = "committed"
    /\ Len(columns_list) = 2
    /\ extractNestedTableName(columns_list[1].name)
           = extractNestedTableName(columns_list[2].name)
    /\ totalRows(blocks) > 0
    /\ {f \in DOMAIN disk : contains(f, ARRAY_SIZES_COLUMN_NAME_SUFFIX)}
           = {<<"t", "%", "s", "i", "z", "e", "0", ".", "b", "i", "n">>,
              <<"t", "%", "s", "i", "z", "e", "0", ".", "m", "r", "k">>}

\* The columns whose sizes writeData serializes: arrays, nullable or not.
arrayColumns ==
    {n \in columnNames :
         \/ isArray(typeOf(n))
         \/ isNullable(typeOf(n)) /\ isArray(getNestedType(typeOf(n)))}

C11_IndexTuples ==
    sorted =>
        LET n == Len(primary_columns)
        IN /\ Len(index_stream) = marks_count * n
           /\ \A j \in DOMAIN index_columns : Len(index_columns[j]) = marks_count
           /\ marks_count > 0 => Len(index_columns) = n
           /\ \A k \in 1..marks_count : \A j \in 1..n :
                  /\ index_stream[(k - 1) * n + j].column = primary_columns[j]
                  /\ index_stream[(k - 1) * n + j].row = (k - 1) * index_granularity
                  /\ index_columns[j][k] = (k - 1) * index_granularity
           /\ state = "committed" => disk[PRIMARY_IDX].rows = index_stream

\* A part sorted by (n, k), whose columns are declared as k, n: two blocks and
\* three marks, each tuple n before k.
C11_Witness ==
    /\ sorted /\ Len(primary_columns) = 2
    /\ columns_list[1].name = <<"k">> /\ primary_columns[1] = <<"n">>
    /\ Len(blocks) = 2 /\ blocks[2].rows > 0
    /\ marks_count = 3
    /\ index_stream[5].column = <<"n">> /\ index_stream[6].column = <<"k">>
    /\ state = "committed"

\* C12: marks_count is 0 exactly when no row was written; a commit with
\* marks_count = 0 removes the part directory with everything in it, writes
\* neither columns.txt nor checksums.txt and returns an empty manifest, and a
\* commit with marks keeps the directory.
C12_EmptyPartRemoved ==
    /\ state \in {"open", "committed", "empty"} =>
           (marks_count = 0 <=> totalRows(blocks) = 0)
    /\ state = "empty" <=>
           /\ state \notin {"open", "aborted"}
           /\ marks_count = 0
    /\ state = "empty" =>
           /\ ~dir_exists
           /\ DOMAIN disk = {}
           /\ checksums = <<>>
    /\ state = "committed" => dir_exists

\* A commit after two blocks of no rows.
C12_Witness ==
    /\ state = "empty"
    /\ Len(blocks) = 2 /\ totalRows(blocks) = 0
    /\ ~dir_exists /\ checksums = <<>>

\* The files of the streams that the declared columns call for.
expectedStreamFiles ==
    UNION {{escapeForFileName(n) \o DATA_FILE_EXTENSION,
            escapeForFileName(n) \o MARKS_FILE_EXTENSION}
           \cup UNION {{sizesFile(n, l) \o DATA_FILE_EXTENSION,
                        sizesFile(n, l) \o MARKS_FILE_EXTENSION} :
                           l \in 0..(arrayDepth(typeOf(n)) - 1)}
           \cup (IF hasNullable(typeOf(n))
                 THEN {escapeForFileName(n) \o NULL_MAP_EXTENSION,
                       escapeForFileName(n) \o NULL_MARKS_FILE_EXTENSION}
                 ELSE {}) : n \in columnNames}

\* C13: after a commit with marks the part directory holds the data file and
\* the mark file of every registered stream, primary.idx when the part is not
\* Unsorted, columns.txt and checksums.txt, and nothing else; the manifest has
\* one entry per data file, per mark file and for primary.idx, under the name
\* of the file. The files of the streams registered at construction are the
\* ones in the directory while the part is open.
C13_DirectoryAndManifest ==
    /\ state = "open" =>
           UNION {filesOf(st) : st \in allStreams} = expectedStreamFiles
    /\ state = "committed" =>
           /\ DOMAIN disk = expectedStreamFiles
                                \cup (IF sorted THEN {PRIMARY_IDX} ELSE {})
                                \cup {COLUMNS_TXT, CHECKSUMS_TXT}
           /\ DOMAIN checksums = DOMAIN disk \ {COLUMNS_TXT, CHECKSUMS_TXT}
           /\ Cardinality(DOMAIN checksums) =
                  Cardinality({f \in DOMAIN disk :
                                   \/ endsWith(f, DATA_FILE_EXTENSION)
                                   \/ endsWith(f, NULL_MAP_EXTENSION)})
                  + Cardinality(markFiles) + (IF sorted THEN 1 ELSE 0)
           /\ disk[COLUMNS_TXT].text = columns_list
           /\ disk[CHECKSUMS_TXT].text = checksums

\* The part of the single column n: UInt32 sorted by n, committed with rows.
C13_Witness ==
    /\ state = "committed"
    /\ columns_list = <<Column(<<"n">>, <<"UInt32">>)>>
    /\ primary_columns = <<<<"n">>>>
    /\ marks_count > 0
    /\ DOMAIN disk = {<<"n", ".", "b", "i", "n">>, <<"n", ".", "m", "r", "k">>,
                      PRIMARY_IDX, COLUMNS_TXT, CHECKSUMS_TXT}
    /\ DOMAIN checksums = {<<"n", ".", "b", "i", "n">>, <<"n", ".", "m", "r", "k">>,
                           PRIMARY_IDX}

\* The size in bytes of a file of the part directory, by its kind.
fileSize(f) ==
    IF f = PRIMARY_IDX THEN indexBytes(disk[f].rows)
    ELSE IF isMarkFile(f) THEN sizeOfMark * Len(disk[f].marks)
    ELSE endOfData(disk[f])

\* The content of a file, which its hash stands for.
fileContent(f) ==
    IF f = PRIMARY_IDX THEN disk[f].rows
    ELSE IF isMarkFile(f) THEN disk[f].marks
    ELSE disk[f].frames

\* C14: when the commit has written checksums.txt and returned a manifest,
\* every entry of the manifest, primary.idx included, names a file of the
\* directory that holds exactly the bytes the entry counts, with the content
\* the entry's hash was taken of; a data file decompresses to the uncompressed
\* size and content of its entry; checksums.txt holds the manifest returned.
C14_ManifestMatchesFiles ==
    state = "committed" =>
        /\ \A f \in DOMAIN checksums :
               /\ f \in DOMAIN disk
               /\ fileSize(f) = checksums[f].file_size
               /\ fileContent(f) = checksums[f].file_hash
               /\ checksums[f].is_compressed =>
                      /\ disk[f].usize = checksums[f].uncompressed_size
                      /\ disk[f].rows = checksums[f].uncompressed_hash
                      /\ uncompressedSize(disk[f].frames) = disk[f].usize
        /\ disk[CHECKSUMS_TXT].text = checksums

\* A committed sorted part with a data file whose last frame, not full, was
\* closed by the commit, behind an earlier frame.
C14_Witness ==
    /\ state = "committed" /\ sorted
    /\ checksums[PRIMARY_IDX].file_size > 0
    /\ \E f \in DOMAIN checksums :
           /\ checksums[f].is_compressed
           /\ Len(disk[f].frames) >= 2
           /\ Last(disk[f].frames).usize < FrameCap
           /\ checksums[f].file_size = endOfData(disk[f])
    /\ \E f \in DOMAIN checksums : isMarkFile(f) /\ checksums[f].file_size >= 2 * sizeOfMark

\* C15: checksums.txt is in the part directory only after a commit with marks
\* has finalized every stream, cleared the stream tables and written
\* columns.txt; it is absent while the part is open, after a commit without
\* marks and after a commit that failed part-way.
C15_ChecksumsOnlyWhenCommitted ==
    writer = "MergedBlockOutputStream" =>
    /\ state \in {"open", "empty", "aborted"} => CHECKSUMS_TXT \notin DOMAIN disk
    /\ CHECKSUMS_TXT \in DOMAIN disk =>
           /\ marks_count > 0
           /\ COLUMNS_TXT \in DOMAIN disk
           /\ \A f \in markFiles : Len(disk[f].marks) > 0 =>
                  disk[dataFileOf(f)].usize = uncompressedSize(disk[dataFileOf(f)].frames)

\* C16: once writeSuffixAndGetChecksums of MergedBlockOutputStream has
\* returned, no call returns normally and none changes the part directory, its
\* files or the manifest.
C16_TerminalAfterCommit ==
    [][(writer = "MergedBlockOutputStream" /\ state \in {"committed", "empty"}) =>
           /\ disk' = disk /\ dir_exists' = dir_exists /\ checksums' = checksums
           /\ ~(exception' = "" /\ state' = state)]_vars

\* C17: a call of writeSuffix, on either writer and in any state, throws
\* NOT_IMPLEMENTED, which no other call throws, and leaves the stream tables,
\* marks_count, index_offset, initialized, the index and every file as they
\* were.
C17_WriteSuffixNotImplemented ==
    [][(WriteSuffix \/ ColumnOnlyWriteSuffix \/ exception' = "NOT_IMPLEMENTED") =>
           /\ exception' = "NOT_IMPLEMENTED"
           /\ UNCHANGED <<numbersVars, config, calls, column_streams, null_streams, disk, dir_exists,
                          index_stream, index_columns, marks_count, index_offset,
                          checksums, state, blocks, initialized>>]_vars

\* writeSuffix has thrown on a MergedColumnOnlyOutputStream that holds streams
\* with data and carries an index_offset.
C17_Witness ==
    /\ exception = "NOT_IMPLEMENTED"
    /\ writer = "MergedColumnOnlyOutputStream"
    /\ initialized /\ index_offset # 0
    /\ \E st \in allStreams : st.count > 0

\* C18: a write under a sort description that names a column twice throws
\* BAD_ARGUMENTS, which no other call throws, and changes nothing; so nothing
\* is ever written to the streams, the marks or the index of such a part.
C18_DuplicateSortColumns ==
    /\ [][exception' = "BAD_ARGUMENTS" =>
             /\ duplicateColumns
             /\ UNCHANGED <<numbersVars, config, calls, column_streams, null_streams, disk, dir_exists,
                            index_stream, index_columns, marks_count, index_offset,
                            checksums, state, blocks, initialized>>]_vars
    /\ []((writer = "MergedBlockOutputStream" /\ duplicateColumns) =>
             /\ marks_count = 0 /\ index_offset = 0 /\ blocks = <<>>
             /\ index_stream = <<>> /\ index_columns = <<>>
             /\ \A st \in allStreams : st.count = 0 /\ st.marks = <<>>)

\* A write has failed on the part sorted by (k, column 0), column 0 being k.
C18_Witness ==
    /\ exception = "BAD_ARGUMENTS"
    /\ primary_columns = <<<<"k">>, <<"k">>>>
    /\ state = "open" /\ marks_count = 0
    /\ \A st \in allStreams : st.count = 0

\* C19: no writer whose granularity is 0 is constructed, so none is open for
\* writes and no write runs its loops or its division under granularity 0.
C19_ZeroGranularityRejected ==
    index_granularity = 0 => state \notin {"open", "hung", "crashed"}

\* C20: after the construction primary.idx is in the directory exactly when
\* the part is not Unsorted; an Unsorted part never has primary.idx nor an
\* index in memory, its marks are counted all the same, and its manifest has no
\* primary.idx entry, which the manifest of every other part has.
C20_PrimaryIndexIffSorted ==
    /\ state = "open" => (PRIMARY_IDX \in DOMAIN disk <=> sorted)
    /\ ~sorted =>
           /\ PRIMARY_IDX \notin DOMAIN disk
           /\ index_stream = <<>> /\ index_columns = <<>>
           /\ marks_count = marksAfter(blocks)
    /\ state = "committed" =>
           /\ PRIMARY_IDX \in DOMAIN checksums <=> sorted
           /\ PRIMARY_IDX \in DOMAIN disk <=> sorted

\* An Unsorted part committed with two blocks and three marks.
C20_Witness ==
    /\ ~sorted /\ state = "committed"
    /\ Len(blocks) = 2 /\ marks_count = 3
    /\ PRIMARY_IDX \notin DOMAIN disk /\ PRIMARY_IDX \notin DOMAIN checksums

\* A write or a commit of MergedColumnOnlyOutputStream.
columnOnlyWrites == \E rows \in 0..MaxRows : ColumnOnlyWrite(rows, 0)

\* The keys of the streams of the columns of a block.
blockColumnKeys ==
    UNION {columnKeys(columns_list[i].name, columns_list[i].type) :
               i \in 1..Len(columns_list)}
blockNullKeys ==
    UNION {nullKeys(columns_list[i].name, columns_list[i].type) :
               i \in 1..Len(columns_list)}

\* Stream t continues stream s: what s held is the head of what t holds.
continues(s, t) ==
    /\ Len(t.rows) >= Len(s.rows) /\ SubSeq(t.rows, 1, Len(s.rows)) = s.rows
    /\ Len(t.marks) >= Len(s.marks) /\ SubSeq(t.marks, 1, Len(s.marks)) = s.marks
    /\ Len(t.frames) >= Len(s.frames) /\ SubSeq(t.frames, 1, Len(s.frames)) = s.frames
    /\ t.count >= s.count

\* Stream t is new in a write that began at global row first: it holds rows of
\* that block only.
newSince(t, first) ==
    /\ \A i \in 1..Len(t.rows) : t.rows[i] >= first
    /\ \A i \in 1..Len(t.marks) : t.marks[i].rows < Len(t.rows)
    /\ uncompressedSize(t.frames) + t.offset = t.count

\* The file holds nothing.
holdsNothing(file) == [file EXCEPT !.opens = 1] = EmptyFile

\* The files of stream s hold what s holds once its last frame is closed.
finalizedIn(d, s) ==
    /\ (s.escaped_column_name \o s.data_file_extension) \in DOMAIN d
    /\ (s.escaped_column_name \o s.marks_file_extension) \in DOMAIN d
    /\ d[s.escaped_column_name \o s.data_file_extension].frames = compressed_next(s).frames
    /\ d[s.escaped_column_name \o s.data_file_extension].rows = s.rows
    /\ d[s.escaped_column_name \o s.marks_file_extension].marks = s.marks

\* C21: a write of MergedColumnOnlyOutputStream that finds initialized unset
\* creates the streams of the block's columns, new and with new files, and sets
\* initialized; a write that finds it set keeps the streams and the files and
\* appends to the streams; the commit finalizes every stream into its files,
\* empties both tables and unsets initialized.
C21_ColumnOnlyStreamLifeCycle ==
    [][/\ (columnOnlyWrites /\ index_granularity # 0) =>
             /\ initialized'
             /\ DOMAIN column_streams' = blockColumnKeys
             /\ DOMAIN null_streams' = blockNullKeys
             /\ IF initialized
                THEN /\ disk' = disk
                     /\ \A k \in DOMAIN column_streams :
                            continues(column_streams[k], column_streams'[k])
                     /\ \A k \in DOMAIN null_streams :
                            continues(null_streams[k], null_streams'[k])
                ELSE /\ \A k \in DOMAIN column_streams' :
                            newSince(column_streams'[k], totalRows(blocks))
                     /\ \A k \in DOMAIN null_streams' :
                            newSince(null_streams'[k], totalRows(blocks))
                     /\ \A st \in Streams(column_streams') \cup Streams(null_streams') :
                            /\ holdsNothing(
                                   disk'[st.escaped_column_name \o st.data_file_extension])
                            /\ holdsNothing(
                                   disk'[st.escaped_column_name \o st.marks_file_extension])
       /\ ColumnOnlyCommit =>
             /\ column_streams' = <<>> /\ null_streams' = <<>> /\ ~initialized'
             /\ \A st \in allStreams : finalizedIn(disk', st)]_vars

\* After a write of 2 rows and a commit, a second write of 2 rows has created
\* the streams anew: the stream of n holds the rows 2 and 3 only, and the
\* manifest of the commit holds the first two.
C21_Witness ==
    /\ writer = "MergedColumnOnlyOutputStream" /\ initialized
    /\ Len(blocks) = 2 /\ blocks[1].rows = 2 /\ blocks[2].rows = 2
    /\ <<"n">> \in DOMAIN column_streams
    /\ column_streams[<<"n">>].rows = <<2, 3>>
    /\ checksums # <<>>

\* The extensions of the files of a stream.
streamExtensions ==
    {DATA_FILE_EXTENSION, MARKS_FILE_EXTENSION, NULL_MAP_EXTENSION,
     NULL_MARKS_FILE_EXTENSION}

\* C22: under a MergedColumnOnlyOutputStream primary.idx, columns.txt and
\* checksums.txt stay as the part had them, no index is built, no mark is
\* counted, the directory stays, and the manifest returned holds entries of
\* stream files only.
C22_ColumnOnlyLeavesPartFiles ==
    writer = "MergedColumnOnlyOutputStream" =>
        /\ dir_exists
        /\ \A f \in {PRIMARY_IDX, COLUMNS_TXT, CHECKSUMS_TXT} :
               /\ f \in DOMAIN disk <=> f \in DOMAIN existingPart(IF sorted THEN "Ordinary"
                                                                  ELSE "Unsorted")
               /\ f \in DOMAIN disk => disk[f].text = <<"e", "x", "i", "s", "t", "i", "n", "g">>
               /\ f \notin DOMAIN checksums
        /\ index_stream = <<>> /\ index_columns = <<>> /\ marks_count = 0
        /\ \A f \in DOMAIN checksums : \E ext \in streamExtensions : endsWith(f, ext)

\* A commit after one block of no rows: the manifest holds the entries of the
\* empty streams and the directory is there.
C22_Witness ==
    /\ writer = "MergedColumnOnlyOutputStream"
    /\ blocks = <<[rows |-> 0, elems |-> 0, permutation |-> <<>>]>>
    /\ ~initialized /\ checksums # <<>> /\ dir_exists
    /\ \A f \in DOMAIN checksums : checksums[f].file_size = 0

\* C23: the directory goes only in a commit of an open MergedBlockOutputStream
\* without marks, which returns; a step that ends in a failed write, a failed
\* commit or the destruction of the writer keeps the directory and every file
\* in it.
C23_DirectoryRemovedOnlyByEmptyCommit ==
    [][/\ (dir_exists /\ ~dir_exists') =>
             /\ writer = "MergedBlockOutputStream"
             /\ state = "open" /\ marks_count = 0
             /\ state' = "empty" /\ exception' = ""
       /\ (state' \in {"aborted", "dropped"} \/ exception' # "") =>
             /\ dir_exists' = dir_exists
             /\ DOMAIN disk \subseteq DOMAIN disk']_vars

\* The writer was dropped after it had written marks and before any commit
\* wrote columns.txt: the directory and the files of the streams are there.
C23_Witness ==
    /\ writer = "MergedBlockOutputStream" /\ state = "dropped"
    /\ marks_count > 0 /\ exception = ""
    /\ dir_exists
    /\ COLUMNS_TXT \notin DOMAIN disk /\ CHECKSUMS_TXT \notin DOMAIN disk
    /\ <<"n", ".", "b", "i", "n">> \in DOMAIN disk /\ PRIMARY_IDX \in DOMAIN disk

\* The files of the part directory that belong to columns.
columnFiles == DOMAIN disk \ {PRIMARY_IDX, COLUMNS_TXT, CHECKSUMS_TXT}

\* The part whose one column is a: Nullable(Array(UInt8)).
nullableArrayPart ==
    columns_list = <<Column(<<"a">>, <<"Nullable", "Array", "UInt8">>)>>

\* C24, as claimed: for the column a: Nullable(Array(UInt8)) the streams are a,
\* a%size0 and the null map of a, and a part committed with marks holds 5
\* column files.
C24_FiveColumnFiles ==
    nullableArrayPart =>
        /\ state = "open" =>
               /\ DOMAIN column_streams = {<<"a">>, <<"a", "%", "s", "i", "z", "e", "0">>}
               /\ DOMAIN null_streams = {<<"a">>}
        /\ state = "committed" => Cardinality(columnFiles) = 5

\* C24, amended: the three streams have two files each, a data file and a mark
\* file, so the directory holds 6 column files, from the construction on and
\* after a commit with marks.
C24_SixColumnFiles ==
    nullableArrayPart =>
        /\ state = "open" =>
               /\ DOMAIN column_streams = {<<"a">>, <<"a", "%", "s", "i", "z", "e", "0">>}
               /\ DOMAIN null_streams = {<<"a">>}
        /\ state \in {"open", "committed"} =>
               /\ Cardinality(columnFiles) = 6
               /\ columnFiles =
                      {<<"a">> \o ext : ext \in streamExtensions}
                      \cup {<<"a", "%", "s", "i", "z", "e", "0">> \o ext :
                                ext \in {DATA_FILE_EXTENSION, MARKS_FILE_EXTENSION}}

\* The part of a: Nullable(Array(UInt8)) committed with marks: six column files
\* beside columns.txt and checksums.txt.
C24_Witness ==
    /\ nullableArrayPart /\ state = "committed" /\ marks_count > 0
    /\ Cardinality(columnFiles) = 6
    /\ Cardinality(DOMAIN disk) = 8
    /\ {COLUMNS_TXT, CHECKSUMS_TXT} \subseteq DOMAIN disk

\* The files of the sizes streams.
sizesFiles ==
    UNION {UNION {{sizesFile(n, l) \o DATA_FILE_EXTENSION,
                   sizesFile(n, l) \o MARKS_FILE_EXTENSION} :
                      l \in 0..(arrayDepth(typeOf(n)) - 1)} : n \in columnNames}

\* C25: the constructor creates the stream of a sizes key once: its data file
\* and its mark file are opened once, however many columns share the key.
C25_SizesStreamCreatedOnce ==
    (writer = "MergedBlockOutputStream" /\ state = "open") =>
        \A f \in sizesFiles : disk[f].opens = 1

\* The row that the k-th mark of stream s points to: the row serialized next
\* after the mark, -1 when the stream holds no row after it.
markedRow(s, k) ==
    IF s.marks[k].rows < Len(s.rows) THEN s.rows[s.marks[k].rows + 1] ELSE -1

\* C26: in a part that is not Unsorted, whatever the blocks, the k-th tuple of
\* primary.idx and the k-th row of every column of the in-memory index are the
\* key of the global row k * granularity (k = 0, 1, ...), and the k-th mark of
\* every stream points to that row.
C26_IndexRowIsMarkedRow ==
    (sorted /\ state = "open") =>
        \A k \in 1..marks_count :
            /\ \A j \in 1..Len(primary_columns) :
                   /\ index_columns[j][k] = (k - 1) * index_granularity
                   /\ index_stream[(k - 1) * Len(primary_columns) + j].row
                          = (k - 1) * index_granularity
            /\ \A s \in allStreams :
                   /\ Len(s.marks) = marks_count
                   /\ markedRow(s, k) = (k - 1) * index_granularity

\* The global numbers of the rows of the blocks bs in the order in which they
\* are to be written: block after block, row i of a block being its source row
\* p[i] under a permutation p and its row i without.
RECURSIVE writtenOrder(_)
writtenOrder(bs) ==
    IF bs = <<>> THEN <<>>
    ELSE LET b == bs[Len(bs)]
             first == totalRows(SubSeq(bs, 1, Len(bs) - 1))
         IN writtenOrder(SubSeq(bs, 1, Len(bs) - 1))
            \o [i \in 1..b.rows |->
                   first + (IF b.permutation = <<>> THEN i - 1 ELSE b.permutation[1][i])]

bytesPerRow(s, name) ==
    IF s.data_file_extension = NULL_MAP_EXTENSION THEN 1
    ELSE valueBytes(typeOf(name), 0)

\* The manifest m holds, under the name n, the entries of the stream s as a
\* finalize leaves it: the bytes serialized into s, the compressed bytes of all
\* its frames, the last one closed, and 16 bytes for each of its marks.
entriesOf(m, n, s, name) ==
    /\ (n \o s.data_file_extension) \in DOMAIN m
    /\ (n \o s.marks_file_extension) \in DOMAIN m
    /\ LET data == m[n \o s.data_file_extension]
           mrk == m[n \o s.marks_file_extension]
       IN /\ data.is_compressed
          /\ data.uncompressed_size = Len(s.rows) * bytesPerRow(s, name)
          /\ data.uncompressed_size = uncompressedSize(s.frames) + s.offset
          /\ data.file_size =
                 s.plain_count + (IF s.offset > 0 THEN compressedSize(s.offset) ELSE 0)
          /\ data.file_size = Len(compressed_next(s).frames)
                                  + uncompressedSize(compressed_next(s).frames)
          /\ mrk.file_size = 16 * Len(s.marks)

\* C28: a commit that returns a manifest records, for every stream of both
\* tables, a data-file entry marked compressed whose uncompressed size is the
\* number of bytes serialized into the stream and whose file size is the number
\* of compressed bytes passed to the data file, and a mark-file entry whose
\* file size is 16 times the number of marks of the stream.
C28_ManifestEntriesOfStreams ==
    [][/\ (writer = "MergedBlockOutputStream" /\ state = "open" /\ state' = "committed") =>
             /\ \A k \in DOMAIN column_streams :
                    entriesOf(checksums', column_streams[k].escaped_column_name,
                              column_streams[k], k)
             /\ \A k \in DOMAIN null_streams :
                    entriesOf(checksums', null_streams[k].escaped_column_name,
                              null_streams[k], k)
       /\ (writer = "MergedColumnOnlyOutputStream" /\ state = "open" /\ state' = "open"
              /\ exception' = "" /\ ~initialized') =>
             /\ \A k \in DOMAIN column_streams :
                    entriesOf(checksums', escapeForFileName(k), column_streams[k], k)
             /\ \A k \in DOMAIN null_streams :
                    entriesOf(checksums', escapeForFileName(k), null_streams[k], k)]_vars

\* The manifest of a committed part of n: UInt32 with 3 rows in two full frames
\* and two marks: 12 bytes uncompressed, 14 in the file, 32 in the mark file.
C28_Witness ==
    /\ writer = "MergedBlockOutputStream" /\ state = "committed"
    /\ <<"n", ".", "b", "i", "n">> \in DOMAIN checksums
    /\ checksums[<<"n", ".", "b", "i", "n">>].is_compressed
    /\ checksums[<<"n", ".", "b", "i", "n">>].uncompressed_size = 12
    /\ checksums[<<"n", ".", "b", "i", "n">>].file_size = 14
    /\ checksums[<<"n", ".", "m", "r", "k">>].file_size = 32

\* The calls of the commit on the stream s in the order of the claim.
callsInOrder(s) ==
    <<Call("finalize", dataFile(s), <<>>)>>
    \o (IF sync THEN <<Call("sync", dataFile(s), dataFile(s)),
                       Call("sync", dataFile(s), marksFile(s))>>
        ELSE <<>>)
    \o <<Call("addToChecksums", dataFile(s), <<>>)>>

\* C29: the commit of MergedColumnOnlyOutputStream makes, for every stream of
\* both tables, the calls finalize, then with sync enabled the fsync of its data
\* file and of its mark file, then addToChecksums, and makes no other call on a
\* stream; with sync disabled no call of any commit is an fsync.
C29_FinalizeSyncRecord ==
    [][/\ (writer = "MergedColumnOnlyOutputStream" /\ state = "open" /\ state' = "open"
              /\ exception' = "" /\ ~initialized') =>
             LET n == IF sync THEN 4 ELSE 2
                 streams == Cardinality(allStreams)
             IN /\ Len(calls') = n * streams
                /\ \A s \in allStreams :
                       \E c \in 0..(streams - 1) :
                           SubSeq(calls', n * c + 1, n * c + n) = callsInOrder(s)
       /\ ~sync => \A i \in DOMAIN calls' : calls'[i].call # "sync"]_vars

\* A commit with sync enabled of the streams of a Nullable column: 8 calls, the
\* mark file of the null map among the files passed to fsync.
C29_Witness ==
    /\ writer = "MergedColumnOnlyOutputStream" /\ sync /\ ~initialized
    /\ Len(calls) = 8
    /\ \E i \in DOMAIN calls :
           /\ calls[i].call = "sync"
           /\ calls[i].file = <<"a", ".", "n", "u", "l", "l", "_", "m", "r", "k">>
    /\ \E i \in DOMAIN disk : disk[i].rows # <<>>

\* C30: for a granularity g >= 1, after any sequence of blocks with T rows in
\* all, empty blocks included, 0 <= index_offset < g,
\* index_offset = (g - T mod g) mod g and, in MergedBlockOutputStream,
\* marks_count = ceil(T / g): the values that writing the T rows as one block
\* gives.
C30_MarksIndependentOfBlocks ==
    (index_granularity >= 1 /\ state = "open") =>
        LET g == index_granularity
            T == totalRows(blocks)
        IN /\ 0 <= index_offset /\ index_offset < g
           /\ index_offset = (g - (T % g)) % g
           /\ index_offset = nextIndexOffset(g, 0, T)
           /\ writer = "MergedBlockOutputStream" =>
                  /\ marks_count = (T + g - 1) \div g
                  /\ marks_count = marksOfBlock(g, 0, T)

\* Two blocks, the first of which ends inside a granule that the second one
\* completes, and a last granule that is not full.
C30_Witness ==
    /\ index_granularity >= 2 /\ state = "open" /\ Len(blocks) = 2
    /\ blocks[1].rows % index_granularity # 0
    /\ blocks[1].rows + blocks[2].rows > index_granularity
    /\ blocks[2].rows > 0
    /\ index_offset > 0
    /\ writer = "MergedBlockOutputStream" /\ marks_count >= 2

\* Mark a is not after mark b: by the offset in the file, then by the offset
\* in the frame.
markLeq(a, b) == a.raw < b.raw \/ (a.raw = b.raw /\ a.frame <= b.frame)

marksOrdered(marks) ==
    \A i \in 1..(Len(marks) - 1) : markLeq(marks[i], marks[i + 1])

\* The marks of stream t are ordered and none is after the position of t, and
\* t is not before the stream s that it continues.
orderedSince(s, t) ==
    /\ marksOrdered(t.marks)
    /\ \A i \in 1..Len(t.marks) :
           markLeq(t.marks[i], [raw |-> t.plain_count, frame |-> t.offset])
    /\ t.plain_count >= s.plain_count
    /\ Len(t.marks) >= Len(s.marks)
    /\ SubSeq(t.marks, 1, Len(s.marks)) = s.marks

\* C31: the marks of every stream and of every mark file are ordered by
\* (raw_offset, offset in the frame), and over every step the raw offset of a
\* stream does not decrease and its marks are only appended to.
C31_MarksOrdered ==
    [][/\ \A k \in DOMAIN column_streams' :
              orderedSince(IF k \in DOMAIN column_streams THEN column_streams[k]
                           ELSE nullptr, column_streams'[k])
       /\ \A k \in DOMAIN null_streams' :
              orderedSince(IF k \in DOMAIN null_streams THEN null_streams[k]
                           ELSE nullptr, null_streams'[k])
       /\ \A f \in DOMAIN disk' : marksOrdered(disk'[f].marks)]_vars

\* A committed mark file with two marks in one frame and a third in a later
\* frame.
C31_Witness ==
    /\ state = "committed"
    /\ \E f \in markFiles :
           /\ Len(disk[f].marks) >= 3
           /\ \E i \in 1..(Len(disk[f].marks) - 2) :
                  /\ disk[f].marks[i].raw = disk[f].marks[i + 1].raw
                  /\ disk[f].marks[i].frame < disk[f].marks[i + 1].frame
                  /\ disk[f].marks[i + 1].raw < disk[f].marks[i + 2].raw

\* C32: in MergedColumnOnlyOutputStream index_offset is 0 whenever the stream
\* tables are about to be created, and the first row of every stream of the
\* tables is preceded by a mark.
C32_NewStreamsStartWithMark ==
    (writer = "MergedColumnOnlyOutputStream" /\ state = "open"
         /\ index_granularity >= 1) =>
        /\ ~initialized => index_offset = 0
        /\ \A s \in allStreams :
               Len(s.rows) > 0 => Len(s.marks) > 0 /\ s.marks[1].rows = 0

\* The files of the part that MergedColumnOnlyOutputStream does not write.
partFiles == {COLUMNS_TXT, CHECKSUMS_TXT, PRIMARY_IDX}

\* C33: after a commit of MergedColumnOnlyOutputStream every key of the
\* manifest it returned is a file that the writer created in the part
\* directory, and every file that the writer created is a key of the manifest.
C33_ManifestKeysAreFiles ==
    (writer = "MergedColumnOnlyOutputStream" /\ state = "open" /\ ~initialized
         /\ blocks # <<>>) =>
        /\ DOMAIN checksums \subseteq DOMAIN disk \ partFiles
        /\ DOMAIN disk \ partFiles \subseteq DOMAIN checksums

\* The iterations that a granularity loop made on stream s in the write that
\* left it as t: one for each mark, and one before the first mark when the
\* block began inside a granule.
iterations(s, t, rows) ==
    Len(t.marks) - Len(s.marks) + (IF index_offset # 0 /\ rows > 0 THEN 1 ELSE 0)

\* The cursor of the loop at the mark i of the write, in a stream that
\* serializes the rows from the cursor on: the rows of the block written before
\* the mark.
cursorAt(s, t, i) == t.marks[Len(s.marks) + i].rows - Len(s.rows)

\* The loop that took s to t over a block of rows rows ended within
\* ceil(rows / g) + 1 iterations; where the cursor can be read, it began at 0
\* or at the carried index_offset, advanced by at least one row in every
\* iteration, and was below rows at every mark.
loopEnds(s, t, rows) ==
    LET g == index_granularity
        n == Len(t.marks) - Len(s.marks)
    IN /\ n >= 0
       /\ iterations(s, t, rows) <= ((rows + g - 1) \div g) + 1
       /\ s.data_file_extension = DATA_FILE_EXTENSION =>
              /\ n >= 1 => cursorAt(s, t, 1) = index_offset
              /\ \A i \in 1..(n - 1) : cursorAt(s, t, i + 1) >= cursorAt(s, t, i) + 1
              /\ \A i \in 1..n : cursorAt(s, t, i) < rows

\* C34: every write of a block ends each granularity loop of writeData, over
\* the null map, the array sizes and the values, within ceil(rows / g) + 1
\* iterations, the cursor advancing by at least one row in every iteration.
C34_WriteDataTerminates ==
    [][(state = "open" /\ state' = "open" /\ Len(blocks') = Len(blocks) + 1) =>
           LET rows == Last(blocks').rows
           IN /\ \A k \in DOMAIN column_streams :
                     loopEnds(column_streams[k], column_streams'[k], rows)
              /\ \A k \in DOMAIN null_streams :
                     loopEnds(null_streams[k], null_streams'[k], rows)]_vars

\* A second block that begins inside a granule and takes three iterations of
\* the loops over a null map and over the values.
C34_Witness ==
    /\ state = "open" /\ Len(blocks) = 2 /\ index_granularity = 1
    /\ blocks[1].rows = 1 /\ blocks[2].rows = 3
    /\ \E k \in DOMAIN null_streams : Len(null_streams[k].marks) = 4
    /\ \E k \in DOMAIN column_streams : Len(column_streams[k].marks) = 4

\* The numbers of a chunk.
numbersOf(chunk) ==
    {(chunk.first + j) % UInt64Modulus : j \in 0..(chunk.size - 1)}

\* C35: the chunks that the sources sharing one counter return hold only
\* numbers of [offset, offset + limit) and no number twice, and once every
\* source has returned an empty chunk they hold every number of the range.
C35_EachNumberInOneChunk ==
    writer = "NumbersMultiThreadedSource" =>
        /\ \A c \in DOMAIN chunks :
               /\ \A n \in numbersOf(chunks[c]) :
                      numbers.offset <= n /\ n < numbers.offset + numbers.limit
               /\ Cardinality(numbersOf(chunks[c])) = chunks[c].size
               /\ \A d \in DOMAIN chunks :
                      c # d => numbersOf(chunks[c]) \cap numbersOf(chunks[d]) = {}
        /\ (\A i \in DOMAIN sources : sources[i].finished) =>
               \A n \in numbers.offset..(numbers.offset + numbers.limit - 1) :
                   \E c \in DOMAIN chunks : n \in numbersOf(chunks[c])

====
